---------------------------- MODULE Spec2Model ----------------------------
(***************************************************************************)
(* A model of secenv: the record parser, the layered secret resolver       *)
(* (SecenvSDK), the global vault snapshot and the lock that serialises     *)
(* writers of one path.                                                    *)
(*                                                                         *)
(* Text is a sequence of one-character strings, so that trim, indexOf,     *)
(* split and startsWith are computed as the code computes them.  An        *)
(* optional value (undefined / null in the code) is a sequence of length   *)
(* at most one: <<>> is "absent", <<x>> is "x is there".                   *)
(***************************************************************************)
EXTENDS Integers, Sequences, FiniteSets, TLC

None == <<>>
Some(x) == <<x>>
IsSome(o) == Len(o) = 1
Get(o) == o[1]

(***************************************************************************)
(* String primitives (ECMAScript semantics).                               *)
(***************************************************************************)
\* White space without the byte-order mark.
WhiteSpaceWithoutMark == {" ", "\t", "\r", "\n"}

\* String.prototype.trim removes white space and line terminators; U+FEFF
\* (the byte-order mark) is white space for it.
WhiteSpace == {" ", "\t", "\r", "\n", "BOM"}

RECURSIVE TrimStart(_)
TrimStart(s) ==
    IF s = <<>> THEN <<>>
    ELSE IF Head(s) \in WhiteSpace THEN TrimStart(Tail(s)) ELSE s

RECURSIVE TrimEnd(_)
TrimEnd(s) ==
    IF s = <<>> THEN <<>>
    ELSE IF s[Len(s)] \in WhiteSpace THEN TrimEnd(SubSeq(s, 1, Len(s) - 1)) ELSE s

Trim(s) == TrimEnd(TrimStart(s))

\* s.startsWith(p)
StartsWith(s, p) == Len(s) >= Len(p) /\ SubSeq(s, 1, Len(p)) = p

\* s.slice(n) with n counted from 0: the text after the first n characters
SliceFrom(s, n) == SubSeq(s, n + 1, Len(s))

\* s.indexOf(c) + 1: the position of the first c, 0 when there is none
IndexOf(s, c) ==
    IF \E i \in 1..Len(s) : s[i] = c
    THEN CHOOSE i \in 1..Len(s) : s[i] = c /\ \A j \in 1..(i - 1) : s[j] # c
    ELSE 0

\* s.split(c): never empty, "" splits to [""]
RECURSIVE Split(_, _)
Split(s, c) ==
    LET i == IndexOf(s, c)
    IN  IF i = 0 THEN <<s>>
        ELSE <<SubSeq(s, 1, i - 1)>> \o Split(SubSeq(s, i + 1, Len(s)), c)

\* lines.join(c)
RECURSIVE Join(_, _)
Join(ls, c) ==
    IF ls = <<>> THEN <<>>
    ELSE IF Len(ls) = 1 THEN ls[1]
    ELSE ls[1] \o <<c>> \o Join(Tail(ls), c)

(***************************************************************************)
(* parse.ts                                                                *)
(***************************************************************************)
ENCRYPTED_PREFIX == <<"e", "n", "c", ":", "a", "g", "e", ":">>
VAULT_PREFIX == <<"v", "a", "u", "l", "t", ":">>

isEncryptedValue(value) == StartsWith(value, ENCRYPTED_PREFIX)

isVaultReference(value) == StartsWith(value, VAULT_PREFIX)

\* The key parseEnvFile takes from a line, empty for a blank line, a comment
\* and a line that gives none.
EntryKey(raw) ==
    LET trimmed == Trim(raw)
        eqIndex == IndexOf(trimmed, "=")
    IN  IF trimmed = <<>> \/ Head(trimmed) = "#" \/ eqIndex = 0 THEN <<>>
        ELSE SubSeq(trimmed, 1, eqIndex - 1)

\* The loop body without its test for a key before the separator.
ParseLineWithoutKeyTest(raw, lineNumber, seen) ==
    LET trimmed == Trim(raw)
        eqIndex == IndexOf(trimmed, "=")
        key     == SubSeq(trimmed, 1, eqIndex - 1)
        value   == SliceFrom(trimmed, eqIndex)
    IN  IF trimmed = <<>> \/ Head(trimmed) = "#"
        THEN [err |-> "", key |-> <<>>, value |-> trimmed, encrypted |-> FALSE,
              lineNumber |-> lineNumber, raw |-> raw]
        ELSE IF eqIndex = 0
        THEN [err |-> "ParseError:missing separator", key |-> <<>>, value |-> <<>>,
              encrypted |-> FALSE, lineNumber |-> lineNumber, raw |-> raw]
        ELSE IF key \in seen
        THEN [err |-> "ParseError:duplicate key", key |-> key, value |-> <<>>,
              encrypted |-> FALSE, lineNumber |-> lineNumber, raw |-> raw]
        ELSE [err |-> "", key |-> key, value |-> value,
              encrypted |-> isEncryptedValue(value),
              lineNumber |-> lineNumber, raw |-> raw]

\* The loop body trimming the value as well as the line.
ParseLineTrimmingValue(raw, lineNumber, seen) ==
    LET trimmed == Trim(raw)
        eqIndex == IndexOf(trimmed, "=")
        key     == SubSeq(trimmed, 1, eqIndex - 1)
        value   == Trim(SliceFrom(trimmed, eqIndex))
    IN  IF trimmed = <<>> \/ Head(trimmed) = "#"
        THEN [err |-> "", key |-> <<>>, value |-> trimmed, encrypted |-> FALSE,
              lineNumber |-> lineNumber, raw |-> raw]
        ELSE IF eqIndex = 0
        THEN [err |-> "ParseError:missing separator", key |-> <<>>, value |-> <<>>,
              encrypted |-> FALSE, lineNumber |-> lineNumber, raw |-> raw]
        ELSE IF key = <<>>
        THEN [err |-> "ParseError:missing key", key |-> <<>>, value |-> <<>>,
              encrypted |-> FALSE, lineNumber |-> lineNumber, raw |-> raw]
        ELSE IF key \in seen
        THEN [err |-> "ParseError:duplicate key", key |-> key, value |-> <<>>,
              encrypted |-> FALSE, lineNumber |-> lineNumber, raw |-> raw]
        ELSE [err |-> "", key |-> key, value |-> value,
              encrypted |-> isEncryptedValue(value),
              lineNumber |-> lineNumber, raw |-> raw]

\* The loop body without its test of the keys seen so far.
ParseLineAllowingDuplicates(raw, lineNumber, seen) ==
    LET trimmed == Trim(raw)
        eqIndex == IndexOf(trimmed, "=")
        key     == SubSeq(trimmed, 1, eqIndex - 1)
        value   == SliceFrom(trimmed, eqIndex)
    IN  IF trimmed = <<>> \/ Head(trimmed) = "#"
        THEN [err |-> "", key |-> <<>>, value |-> trimmed, encrypted |-> FALSE,
              lineNumber |-> lineNumber, raw |-> raw]
        ELSE IF eqIndex = 0
        THEN [err |-> "ParseError:missing separator", key |-> <<>>, value |-> <<>>,
              encrypted |-> FALSE, lineNumber |-> lineNumber, raw |-> raw]
        ELSE IF key = <<>>
        THEN [err |-> "ParseError:missing key", key |-> <<>>, value |-> <<>>,
              encrypted |-> FALSE, lineNumber |-> lineNumber, raw |-> raw]
        ELSE [err |-> "", key |-> key, value |-> value,
              encrypted |-> isEncryptedValue(value),
              lineNumber |-> lineNumber, raw |-> raw]

\* One line of parseEnvFile's loop: the ParsedLine it pushes, or the error it
\* throws.  seen is the set of keys of the lines before it.
ParseLine(raw, lineNumber, seen) ==
    LET trimmed == Trim(raw)
        eqIndex == IndexOf(trimmed, "=")
        key     == SubSeq(trimmed, 1, eqIndex - 1)
        value   == SliceFrom(trimmed, eqIndex)
    IN  IF trimmed = <<>> \/ Head(trimmed) = "#"
        THEN [err |-> "", key |-> <<>>, value |-> trimmed, encrypted |-> FALSE,
              lineNumber |-> lineNumber, raw |-> raw]
        ELSE IF eqIndex = 0
        THEN [err |-> "ParseError:missing separator", key |-> <<>>, value |-> <<>>,
              encrypted |-> FALSE, lineNumber |-> lineNumber, raw |-> raw]
        ELSE IF key = <<>>
        THEN [err |-> "ParseError:missing key", key |-> <<>>, value |-> <<>>,
              encrypted |-> FALSE, lineNumber |-> lineNumber, raw |-> raw]
        ELSE IF key \in seen
        THEN [err |-> "ParseError:duplicate key", key |-> key, value |-> <<>>,
              encrypted |-> FALSE, lineNumber |-> lineNumber, raw |-> raw]
        ELSE [err |-> "", key |-> key, value |-> value,
              encrypted |-> isEncryptedValue(value),
              lineNumber |-> lineNumber, raw |-> raw]

\* The loop of parseEnvFile over lines i..Len(lines), with the lines parsed so far.
RECURSIVE ParseFrom(_, _, _)
ParseFrom(lines, i, acc) ==
    IF i > Len(lines) THEN [ok |-> TRUE, lines |-> acc, error |-> None]
    ELSE LET seen == {acc[j].key : j \in 1..Len(acc)} \ {<<>>}
             pl   == ParseLine(lines[i], i, seen)
         IN  IF pl.err # "" THEN [ok |-> FALSE, lines |-> <<>>, error |-> Some(pl)]
             ELSE ParseFrom(lines, i + 1, Append(acc, pl))

\* parseEnvFile(filePath), given what is at the path: None when no file is
\* there, Some(content) otherwise.
parseEnvFile(file) ==
    IF ~IsSome(file) THEN [ok |-> TRUE, lines |-> <<>>, error |-> None]
    ELSE ParseFrom(Split(Get(file), "\n"), 1, <<>>)

\* ParsedEnv.keys
KeysOf(env) == {env.lines[j].key : j \in 1..Len(env.lines)} \ {<<>>}

\* findKey(env, key): the first line with that key, or null
findKey(env, key) ==
    IF \E j \in 1..Len(env.lines) : env.lines[j].key = key
    THEN Some(env.lines[CHOOSE j \in 1..Len(env.lines) :
                  /\ env.lines[j].key = key
                  /\ \A m \in 1..(j - 1) : env.lines[m].key # key])
    ELSE None

\* The key a line of the file holds for setKey and deleteKey: none on a blank
\* line, a comment or a line without '='.
LineKey(line) ==
    LET trimmed == Trim(line)
        eqIndex == IndexOf(trimmed, "=")
    IN  IF trimmed = <<>> \/ StartsWith(trimmed, <<"#">>) THEN None
        ELSE IF eqIndex = 0 THEN None
        ELSE Some(SubSeq(trimmed, 1, eqIndex - 1))

\* newLines.filter((l, i) => l.trim() !== '' || i < newLines.length - 1)
\*         .join('\n').trim() + '\n'
FinalContent(newLines) ==
    LET n == Len(newLines)
        kept == IF n > 0 /\ Trim(newLines[n]) = <<>>
                THEN SubSeq(newLines, 1, n - 1) ELSE newLines
    IN  Trim(Join(kept, "\n")) \o <<"\n">>

\* setKey adding the new entry at the end whether the key is there or not.
setKeyAppending(content, key, encryptedValue) ==
    LET lines == Split(content, "\n")
        entry == key \o <<"=">> \o encryptedValue
    IN  FinalContent(Append(lines, entry))

\* setKey dropping the key's line and adding the new entry at the end.
setKeyMovingToEnd(content, key, encryptedValue) ==
    LET lines == Split(content, "\n")
        entry == key \o <<"=">> \o encryptedValue
        others == SelectSeq(lines, LAMBDA l : LineKey(l) # Some(key))
    IN  FinalContent(Append(others, entry))

\* setKey's protected action: the content it writes for the content it read
setKey(content, key, encryptedValue) ==
    LET lines == Split(content, "\n")
        entry == key \o <<"=">> \o encryptedValue
        found == \E i \in 1..Len(lines) : LineKey(lines[i]) = Some(key)
        rewritten == [i \in 1..Len(lines) |->
                        IF LineKey(lines[i]) = Some(key) THEN entry ELSE lines[i]]
        newLines == IF found THEN rewritten ELSE Append(rewritten, entry)
    IN  FinalContent(newLines)

\* deleteKey's protected action: the content it writes for the content it read
deleteKey(content, key) ==
    LET lines == Split(content, "\n")
        newLines == SelectSeq(lines, LAMBDA l : LineKey(l) # Some(key))
    IN  FinalContent(newLines)

(***************************************************************************)
(* The world of one process: its environment, the record file of the       *)
(* resolution root, the identity file and the vault file.                  *)
(***************************************************************************)
\* Bounds of the model.
MaxCalls == 2    \* calls of one resolver that may be in flight together
MaxMtime == 2    \* modification times a record file goes through

Calls == 1..MaxCalls

\* Keys asked of the resolver, and names the process environment may set.
KeyK == <<"K">>
KeyP == <<"_", "P">>
GetKeys == {KeyK, KeyP}
ValA == <<"A">>
ValB == <<"B">>
VaultKeyV == <<"V">>

\* Record files an editor or another process may leave at the path.
TextKA == <<"K", "=", "A", "\n">>
TextKB == <<"K", "=", "B", "\n">>
TextKVault == <<"K", "=">> \o VAULT_PREFIX \o <<"V", "\n">>
TextKEncA == <<"K", "=">> \o ENCRYPTED_PREFIX \o <<"x", "\n">>
TextKEncVault == <<"K", "=">> \o ENCRYPTED_PREFIX \o <<"y", "\n">>
TextPrivate == <<"_", "P", "=", "B", "\n", "K", "=", "A", "\n">>
TextBroken == <<"K", "\n">>
RecordTexts == {TextKA, TextKB, TextKVault, TextKEncA, TextKEncVault,
                TextPrivate, TextBroken}

\* age.ts is not among the sources: identities, recipients and sealed blobs
\* are modelled from the specification.  A blob is sealed to one recipient
\* and opens only under the identity of that recipient.
Identities == {"id1", "id2"}
getPublicKey(id) == id
SealedBlobs ==
    [c \in {"x", "y", "z"} |->
        CASE c = "x" -> [rcpt |-> "id1", text |-> ValA]
          [] c = "y" -> [rcpt |-> "id1", text |-> VAULT_PREFIX \o VaultKeyV]
          [] c = "z" -> [rcpt |-> "id2", text |-> ValB]]

\* decrypt(identity, message): the plaintext, or DecryptionError
decryptValue(id, msg) ==
    IF Len(msg) = 1 /\ msg[1] \in DOMAIN SealedBlobs
       /\ getPublicKey(id) = SealedBlobs[msg[1]].rcpt
    THEN [ok |-> TRUE, text |-> SealedBlobs[msg[1]].text]
    ELSE [ok |-> FALSE, text |-> <<>>]

\* The vault file holds one blob: the recipient it is sealed to and the text.
encrypt(rcpt, text) == [rcpt |-> rcpt, text |-> text]
CorruptBlob == [rcpt |-> "nobody", text |-> <<>>]
decryptString(id, blob) ==
    IF blob.rcpt = getPublicKey(id)
    THEN [ok |-> TRUE, text |-> blob.text]
    ELSE [ok |-> FALSE, text |-> <<>>]

(***************************************************************************)
(* A JavaScript Map: pairs <<key, value>> in insertion order, keys unique. *)
(***************************************************************************)
EmptyMap == <<>>
MapHas(m, k) == \E i \in 1..Len(m) : m[i][1] = k
MapGet(m, k) ==
    IF MapHas(m, k) THEN Some(m[CHOOSE i \in 1..Len(m) : m[i][1] = k][2]) ELSE None
MapSet(m, k, v) ==
    IF MapHas(m, k)
    THEN [i \in 1..Len(m) |-> IF m[i][1] = k THEN <<k, v>> ELSE m[i]]
    ELSE Append(m, <<k, v>>)
MapKeys(m) == {m[i][1] : i \in 1..Len(m)}
MapDelete(m, k) == SelectSeq(m, LAMBDA e : e[1] # k)

VARIABLES
    procEnv,          \* process.env: name -> optional value
    encodedIdentity,  \* process.env.SECENV_ENCODED_IDENTITY, if set
    file,             \* the record file at the resolution root: optional text
    mtime,            \* its modification time
    identityFile,     \* the default identity file: optional identity
    vaultFile,        \* the vault file: optional sealed blob
    vaultCache,       \* vault.ts: the memoized snapshot, optional Map
    identity,         \* SecenvSDK.#identity
    identityPromise,  \* SecenvSDK.#identityPromise: "none", "pending", "rejected"
    cache,            \* SecenvSDK.#cache
    cacheTimestamp,   \* SecenvSDK.#cacheTimestamp
    cacheSize,        \* SecenvSDK.#cacheSize
    parsedEnv,        \* SecenvSDK.#parsedEnv: optional ParsedEnv
    lastPath,         \* SecenvSDK.#lastPath
    calls,            \* the resolver's calls in flight, each where it is suspended
    lastRet,          \* what the call that returned last gave its caller
    lockFile,         \* the marker <path>.lock: optional, with who created it
    dest,             \* the file at the path the writers replace: optional text
    tmpFiles,         \* the temporary siblings of the path that exist
    writers,          \* the processes that write the path: where each one is
    readSeen,         \* what the last unlocked read of the path returned, if any
    parseOut,         \* what the last call of parseEnvFile gave, if any
    vaultProcs,       \* the processes that share the vault file: where each one is
    vaultLock,        \* the marker beside the vault file: who holds it, if any
    identityReads,    \* how often SecenvSDK.loadIdentity has begun to read the identity file
    cwd,              \* process.cwd(), the directory the record path is resolved in
    elsewhere         \* the record file of the other directory, and its mtime

vars == <<procEnv, encodedIdentity, file, mtime, identityFile, vaultFile,
          vaultCache, identity, identityPromise, identityReads, cache, cacheTimestamp, cacheSize,
          parsedEnv, lastPath, calls, lastRet, lockFile, dest, tmpFiles, writers,
          readSeen, parseOut, vaultProcs, vaultLock, cwd, elsewhere>>

\* What the resolver's steps never touch.
lockVars == <<lockFile, dest, tmpFiles, writers, readSeen>>
\* What only the parser's calls and the processes sharing the vault change.
apartVars == <<parseOut, vaultProcs, vaultLock, cwd, elsewhere>>
restVars == <<encodedIdentity, identityFile, lockVars, apartVars>>
worldVars == <<procEnv, file, mtime, restVars>>
sdkVars == <<identity, identityPromise, identityReads, cache, cacheTimestamp, cacheSize,
             parsedEnv, lastPath>>

\* getEnvPath(), resolved in the current directory; file and mtime are the
\* record file found at that path.
envPath == IF cwd = "/proj" THEN "/proj/.env.enc" ELSE "/other/.env.enc"

\* A resolver-cache Map, as a function from its keys.
EmptyCache == [k \in {} |-> <<>>]
CacheSet(m, k, v) == [x \in (DOMAIN m) \cup {k} |-> IF x = k THEN v ELSE m[x]]

(***************************************************************************)
(* env.ts: SecenvSDK                                                       *)
(***************************************************************************)
\* A reloadEnv() that parses the changed file again but keeps the entries
\* cached from the file's earlier content.
reloadEnvKeepingCache ==
    LET pathChanged == envPath # lastPath
        c0  == IF pathChanged THEN EmptyCache ELSE cache
        ts0 == IF pathChanged THEN 0 ELSE cacheTimestamp
        sz0 == IF pathChanged THEN 0 ELSE cacheSize
        pe0 == IF pathChanged THEN None ELSE parsedEnv
    IN  IF ~IsSome(file)
        THEN [threw |-> None, cache |-> EmptyCache, cacheTimestamp |-> 0,
              cacheSize |-> 0, parsedEnv |-> None, lastPath |-> envPath]
        ELSE IF mtime # ts0 \/ Len(Get(file)) # sz0 \/ ~IsSome(pe0)
        THEN IF parseEnvFile(file).ok
             THEN [threw |-> None, cache |-> c0,
                   cacheTimestamp |-> mtime, cacheSize |-> Len(Get(file)),
                   parsedEnv |-> Some(parseEnvFile(file)), lastPath |-> envPath]
             ELSE [threw |-> parseEnvFile(file).error, cache |-> c0,
                   cacheTimestamp |-> ts0, cacheSize |-> sz0,
                   parsedEnv |-> pe0, lastPath |-> envPath]
        ELSE [threw |-> None, cache |-> c0, cacheTimestamp |-> ts0,
              cacheSize |-> sz0, parsedEnv |-> pe0, lastPath |-> envPath]

\* A reloadEnv() that does not compare the path with the one it saw last.
reloadEnvIgnoringPath ==
    LET pathChanged == FALSE
        c0  == IF pathChanged THEN EmptyCache ELSE cache
        ts0 == IF pathChanged THEN 0 ELSE cacheTimestamp
        sz0 == IF pathChanged THEN 0 ELSE cacheSize
        pe0 == IF pathChanged THEN None ELSE parsedEnv
    IN  IF ~IsSome(file)
        THEN [threw |-> None, cache |-> EmptyCache, cacheTimestamp |-> 0,
              cacheSize |-> 0, parsedEnv |-> None, lastPath |-> envPath]
        ELSE LET newTimestamp == mtime
                 newSize == Len(Get(file))
             IN  IF newTimestamp # ts0 \/ newSize # sz0 \/ ~IsSome(pe0)
                 THEN LET parsed == parseEnvFile(file)
                      IN  IF parsed.ok
                          THEN [threw |-> None, cache |-> EmptyCache,
                                cacheTimestamp |-> newTimestamp, cacheSize |-> newSize,
                                parsedEnv |-> Some(parsed), lastPath |-> envPath]
                          ELSE [threw |-> parsed.error, cache |-> c0,
                                cacheTimestamp |-> ts0, cacheSize |-> sz0,
                                parsedEnv |-> pe0, lastPath |-> envPath]
                 ELSE [threw |-> None, cache |-> c0, cacheTimestamp |-> ts0,
                       cacheSize |-> sz0, parsedEnv |-> pe0, lastPath |-> envPath]

\* A reloadEnv() that catches the parser's error and goes on with the record
\* it parsed last.
reloadEnvSwallowingError ==
    LET pathChanged == envPath # lastPath
        \* clearCache() on a changed path
        c0  == IF pathChanged THEN EmptyCache ELSE cache
        ts0 == IF pathChanged THEN 0 ELSE cacheTimestamp
        sz0 == IF pathChanged THEN 0 ELSE cacheSize
        pe0 == IF pathChanged THEN None ELSE parsedEnv
    IN  IF ~IsSome(file)
        THEN [threw |-> None, cache |-> EmptyCache, cacheTimestamp |-> 0,
              cacheSize |-> 0, parsedEnv |-> None, lastPath |-> envPath]
        ELSE LET newTimestamp == mtime
                 newSize == Len(Get(file))
             IN  IF newTimestamp # ts0 \/ newSize # sz0 \/ ~IsSome(pe0)
                 THEN LET parsed == parseEnvFile(file)
                      IN  IF parsed.ok
                          THEN [threw |-> None, cache |-> EmptyCache,
                                cacheTimestamp |-> newTimestamp, cacheSize |-> newSize,
                                parsedEnv |-> Some(parsed), lastPath |-> envPath]
                          ELSE [threw |-> None, cache |-> c0,
                                cacheTimestamp |-> ts0, cacheSize |-> sz0,
                                parsedEnv |-> pe0, lastPath |-> envPath]
                 ELSE [threw |-> None, cache |-> c0, cacheTimestamp |-> ts0,
                       cacheSize |-> sz0, parsedEnv |-> pe0, lastPath |-> envPath]

\* reloadEnv(): the fields it leaves, and whether parseEnvFile threw.
reloadEnv ==
    LET pathChanged == envPath # lastPath
        \* clearCache() on a changed path
        c0  == IF pathChanged THEN EmptyCache ELSE cache
        ts0 == IF pathChanged THEN 0 ELSE cacheTimestamp
        sz0 == IF pathChanged THEN 0 ELSE cacheSize
        pe0 == IF pathChanged THEN None ELSE parsedEnv
    IN  IF ~IsSome(file)
        THEN [threw |-> None, cache |-> EmptyCache, cacheTimestamp |-> 0,
              cacheSize |-> 0, parsedEnv |-> None, lastPath |-> envPath]
        ELSE LET newTimestamp == mtime
                 newSize == Len(Get(file))
             IN  IF newTimestamp # ts0 \/ newSize # sz0 \/ ~IsSome(pe0)
                 THEN LET parsed == parseEnvFile(file)
                      IN  IF parsed.ok
                          THEN [threw |-> None, cache |-> EmptyCache,
                                cacheTimestamp |-> newTimestamp, cacheSize |-> newSize,
                                parsedEnv |-> Some(parsed), lastPath |-> envPath]
                          ELSE [threw |-> parsed.error, cache |-> c0,
                                cacheTimestamp |-> ts0, cacheSize |-> sz0,
                                parsedEnv |-> pe0, lastPath |-> envPath]
                 ELSE [threw |-> None, cache |-> c0, cacheTimestamp |-> ts0,
                       cacheSize |-> sz0, parsedEnv |-> pe0, lastPath |-> envPath]

\* Base64: the alphabet in the order of its values, and the printable ASCII
\* characters from code 32 on; the quotes, the backslash and every byte
\* outside them are shown as "?".
Base64Alphabet ==
    <<"A", "B", "C", "D", "E", "F", "G", "H", "I", "J", "K", "L", "M", "N",
      "O", "P", "Q", "R", "S", "T", "U", "V", "W", "X", "Y", "Z", "a", "b",
      "c", "d", "e", "f", "g", "h", "i", "j", "k", "l", "m", "n", "o", "p",
      "q", "r", "s", "t", "u", "v", "w", "x", "y", "z", "0", "1", "2", "3",
      "4", "5", "6", "7", "8", "9", "+", "/">>
Printable ==
    <<" ", "!", "?", "#", "$", "%", "&", "'", "(", ")", "*", "+", ",", "-",
      ".", "/", "0", "1", "2", "3", "4", "5", "6", "7", "8", "9", ":", ";",
      "<", "=", ">", "?", "@", "A", "B", "C", "D", "E", "F", "G", "H", "I",
      "J", "K", "L", "M", "N", "O", "P", "Q", "R", "S", "T", "U", "V", "W",
      "X", "Y", "Z", "[", "?", "]", "^", "_", "?", "a", "b", "c", "d", "e",
      "f", "g", "h", "i", "j", "k", "l", "m", "n", "o", "p", "q", "r", "s",
      "t", "u", "v", "w", "x", "y", "z", "{", "|", "}", "~">>
Base64Value(c) == (CHOOSE i \in 1..Len(Base64Alphabet) : Base64Alphabet[i] = c) - 1
ByteChar(b) == IF b >= 32 /\ b <= 126 THEN Printable[b - 31] ELSE "?"

\* The bytes one group of four characters stands for: three, or two before
\* "=", or one before "==".
DecodeGroup(g) ==
    LET v(i) == IF g[i] = "=" THEN 0 ELSE Base64Value(g[i])
        n    == v(1) * 262144 + v(2) * 4096 + v(3) * 64 + v(4)
        b1   == ByteChar(n \div 65536)
        b2   == ByteChar((n \div 256) % 256)
        b3   == ByteChar(n % 256)
    IN  IF g[3] = "=" THEN <<b1>>
        ELSE IF g[4] = "=" THEN <<b1, b2>>
        ELSE <<b1, b2, b3>>

\* Buffer.from(encoded, "base64").toString("utf-8") of a text the pattern
\* has accepted
RECURSIVE Base64Decode(_)
Base64Decode(t) ==
    IF Len(t) < 4 THEN <<>>
    ELSE DecodeGroup(SubSeq(t, 1, 4)) \o Base64Decode(SubSeq(t, 5, Len(t)))

\* /^(?:[A-Za-z0-9+/]{4})*(?:[A-Za-z0-9+/]{2}==|[A-Za-z0-9+/]{3}=)?$/
Base64Pattern(t) ==
    LET n     == Len(t)
        in(i) == \E j \in 1..Len(Base64Alphabet) : Base64Alphabet[j] = t[i]
    IN  /\ n % 4 = 0
        /\ \A i \in 1..(n - 2) : in(i)
        /\ n > 0 => \/ in(n - 1) /\ in(n)
                    \/ in(n - 1) /\ t[n] = "="
                    \/ t[n - 1] = "=" /\ t[n] = "="

AGE_SECRET_PREFIX ==
    <<"A", "G", "E", "-", "S", "E", "C", "R", "E", "T", "-", "K", "E", "Y",
      "-", "1">>

\* The identities of the model and the key texts that stand for them; a key
\* text of the right form that is neither is an identity no blob is sealed to.
IdentityText(id) == AGE_SECRET_PREFIX \o (IF id = "id1" THEN <<"A">> ELSE <<"B">>)
IdentityOfText(text) ==
    IF text = IdentityText("id1") THEN "id1"
    ELSE IF text = IdentityText("id2") THEN "id2"
    ELSE "other"

\* The override in SECENV_ENCODED_IDENTITY, checked as loadIdentity checks it:
\* the strict base64 alphabet, the padding, the prefix of the decoded text.
DecodeIdentity(value) ==
    LET encoded == Trim(value)
    IN  IF \E i \in 1..Len(encoded) : encoded[i] \in {"-", "_", " ", "\n", "\r"}
        THEN None
        ELSE IF ~Base64Pattern(encoded) THEN None
        ELSE IF ~StartsWith(Base64Decode(encoded), AGE_SECRET_PREFIX) THEN None
        ELSE Some(IdentityOfText(Base64Decode(encoded)))

\* if (process.env.SECENV_ENCODED_IDENTITY): set, and not the empty string
OverrideGiven == IsSome(encodedIdentity) /\ Get(encodedIdentity) # <<>>

\* age.ts identityExists() and loadIdentity(), modelled from the specification:
\* a validated override first, else the default identity file.
identityExists == IsSome(identityFile)
ageLoadIdentity ==
    IF OverrideGiven /\ IsSome(DecodeIdentity(Get(encodedIdentity)))
    THEN DecodeIdentity(Get(encodedIdentity))
    ELSE identityFile

\* A call of the resolver: where it is suspended and the locals it holds.
IdleCall == [pc |-> "idle", key |-> <<>>, value |-> <<>>, via |-> "",
             ident |-> None, blob |-> None]

\* What a call gave its caller: the operation, its key, the kind of outcome
\* ("ok", or the error thrown), the value of get, the answer of has, the list of
\* keys, and the step of the resolution order that produced it.
Ret(op, key, kind, value, flag, keys, via) ==
    [op |-> op, key |-> key, kind |-> kind, value |-> value, flag |-> flag,
     keys |-> keys, via |-> via]
GetRet(key, kind, value, via) == Ret("get", key, kind, value, FALSE, {}, via)
NoRet == Ret("", <<>>, "", <<>>, FALSE, {}, "")

Finish(c, ret) ==
    /\ calls' = [calls EXCEPT ![c] = IdleCall]
    /\ lastRet' = ret

Suspend(c, rec) ==
    /\ calls' = [calls EXCEPT ![c] = rec]
    /\ UNCHANGED lastRet

SetReloaded(r, newCache) ==
    /\ cache' = newCache
    /\ cacheTimestamp' = r.cacheTimestamp
    /\ cacheSize' = r.cacheSize
    /\ parsedEnv' = r.parsedEnv
    /\ lastPath' = r.lastPath

(***************************************************************************)
(* vault.ts                                                                *)
(***************************************************************************)
\* saveVault's text: one KEY=VALUE line per entry, in the Map's order
RECURSIVE FormatVault(_)
FormatVault(m) ==
    IF m = <<>> THEN <<>>
    ELSE m[1][1] \o <<"=">> \o m[1][2] \o <<"\n">> \o FormatVault(Tail(m))

\* loadVault's loop over the decrypted lines
RECURSIVE ParseVaultLines(_, _)
ParseVaultLines(lines, m) ==
    IF lines = <<>> THEN m
    ELSE LET trimmed == Trim(Head(lines))
             eqIndex == IndexOf(trimmed, "=")
             key     == Trim(SubSeq(trimmed, 1, eqIndex - 1))
             value   == Trim(SliceFrom(trimmed, eqIndex))
         IN  IF trimmed = <<>> \/ Head(trimmed) = "#" \/ eqIndex = 0 \/ key = <<>>
             THEN ParseVaultLines(Tail(lines), m)
             ELSE ParseVaultLines(Tail(lines), MapSet(m, key, value))

ParseVault(text) == ParseVaultLines(Split(text, "\n"), EmptyMap)

\* loadVault() up to its first await: the snapshot it returns at once, the
\* error it throws at once, or the suspension at loadIdentity().
loadVaultBegin ==
    IF IsSome(vaultCache)
    THEN [state |-> "loaded", map |-> Get(vaultCache), vaultCache |-> vaultCache]
    ELSE IF ~IsSome(vaultFile)
    THEN [state |-> "loaded", map |-> EmptyMap, vaultCache |-> Some(EmptyMap)]
    ELSE IF ~identityExists
    THEN [state |-> "IdentityNotFound", map |-> EmptyMap, vaultCache |-> vaultCache]
    ELSE [state |-> "suspended", map |-> EmptyMap, vaultCache |-> vaultCache]

\* loadVault() after decryptString: the snapshot it memoizes, or VaultError
loadVaultEnd(id, blob) ==
    LET d == decryptString(id, blob)
    IN  IF d.ok
        THEN [state |-> "loaded", map |-> ParseVault(d.text),
              vaultCache |-> Some(ParseVault(d.text))]
        ELSE [state |-> "VaultError", map |-> EmptyMap, vaultCache |-> vaultCache]

\* loadVault reading and decrypting the file before it looks for an identity.
loadVaultDecryptFirst(vc) ==
    IF IsSome(vc) THEN [state |-> "loaded", map |-> Get(vc), vaultCache |-> vc]
    ELSE IF ~IsSome(vaultFile)
    THEN [state |-> "loaded", map |-> EmptyMap, vaultCache |-> Some(EmptyMap)]
    ELSE IF Get(vaultFile).rcpt \notin Identities
    THEN [state |-> "VaultError", map |-> EmptyMap, vaultCache |-> vc]
    ELSE IF ~identityExists \/ ~IsSome(ageLoadIdentity)
    THEN [state |-> "IdentityNotFound", map |-> EmptyMap, vaultCache |-> vc]
    ELSE LET d == decryptString(Get(ageLoadIdentity), Get(vaultFile))
         IN  IF d.ok
             THEN [state |-> "loaded", map |-> ParseVault(d.text),
                   vaultCache |-> Some(ParseVault(d.text))]
             ELSE [state |-> "VaultError", map |-> EmptyMap, vaultCache |-> vc]

\* loadVault memoizing an empty snapshot when the decryption fails.
loadVaultMemoizingFailure(vc) ==
    IF IsSome(vc) THEN [state |-> "loaded", map |-> Get(vc), vaultCache |-> vc]
    ELSE IF ~IsSome(vaultFile)
    THEN [state |-> "loaded", map |-> EmptyMap, vaultCache |-> Some(EmptyMap)]
    ELSE IF ~identityExists \/ ~IsSome(ageLoadIdentity)
    THEN [state |-> "IdentityNotFound", map |-> EmptyMap, vaultCache |-> vc]
    ELSE LET d == decryptString(Get(ageLoadIdentity), Get(vaultFile))
         IN  IF d.ok
             THEN [state |-> "loaded", map |-> ParseVault(d.text),
                   vaultCache |-> Some(ParseVault(d.text))]
             ELSE [state |-> "VaultError", map |-> EmptyMap,
                   vaultCache |-> Some(EmptyMap)]

\* loadVault() run to its end with nothing else in between
loadVaultWhole(vc) ==
    IF IsSome(vc) THEN [state |-> "loaded", map |-> Get(vc), vaultCache |-> vc]
    ELSE IF ~IsSome(vaultFile)
    THEN [state |-> "loaded", map |-> EmptyMap, vaultCache |-> Some(EmptyMap)]
    ELSE IF ~identityExists \/ ~IsSome(ageLoadIdentity)
    THEN [state |-> "IdentityNotFound", map |-> EmptyMap, vaultCache |-> vc]
    ELSE LET d == decryptString(Get(ageLoadIdentity), Get(vaultFile))
         IN  IF d.ok
             THEN [state |-> "loaded", map |-> ParseVault(d.text),
                   vaultCache |-> Some(ParseVault(d.text))]
             ELSE [state |-> "VaultError", map |-> EmptyMap, vaultCache |-> vc]

\* A vault miss reported as if the project key itself were absent.
VaultLookupMissAsNotFound(key, vaultKey, map, via) ==
    IF IsSome(MapGet(map, vaultKey))
    THEN GetRet(key, "ok", Get(MapGet(map, vaultKey)), via)
    ELSE GetRet(key, "SecretNotFound", <<>>, via)

\* get(): what the caller receives once vaultGet(vaultKey) has answered
VaultLookup(key, vaultKey, map, via) ==
    IF IsSome(MapGet(map, vaultKey))
    THEN GetRet(key, "ok", Get(MapGet(map, vaultKey)), via)
    ELSE GetRet(key, "VaultError", <<>>, via)

\* get() from its call of vaultGet(vaultKey) on
VaultGet(c, key, vaultKey, via) ==
    LET b == loadVaultBegin
    IN  /\ vaultCache' = b.vaultCache
        /\ IF b.state = "loaded"
           THEN Finish(c, VaultLookup(key, vaultKey, b.map, via))
           ELSE IF b.state = "suspended"
           THEN Suspend(c, [pc |-> "vaultIdentity", key |-> key, value |-> vaultKey,
                            via |-> via, ident |-> None, blob |-> None])
           ELSE Finish(c, GetRet(key, b.state, <<>>, via))

(***************************************************************************)
(* env.ts: SecenvSDK.loadIdentity, get, has, keys, clearCache              *)
(***************************************************************************)
\* loadIdentity() that goes on to the default identity file when the override
\* does not pass its checks.
sdkLoadIdentityFallingBack ==
    IF IsSome(identity)
    THEN [state |-> "have", ident |-> identity, identity |-> identity,
          identityPromise |-> identityPromise, reads |-> 0]
    ELSE IF identityPromise # "none"
    THEN [state |-> "wait", ident |-> None, identity |-> identity,
          identityPromise |-> identityPromise, reads |-> 0]
    ELSE IF OverrideGiven /\ IsSome(DecodeIdentity(Get(encodedIdentity)))
    THEN [state |-> "have", ident |-> DecodeIdentity(Get(encodedIdentity)),
          identity |-> DecodeIdentity(Get(encodedIdentity)),
          identityPromise |-> identityPromise, reads |-> 0]
    ELSE IF ~identityExists
    THEN [state |-> "IdentityNotFound", ident |-> None, identity |-> identity,
          identityPromise |-> identityPromise, reads |-> 0]
    ELSE [state |-> "wait", ident |-> None, identity |-> identity,
          identityPromise |-> "pending", reads |-> 1]

\* loadIdentity() that does not look for a promise already handed out.
sdkLoadIdentityEachItsOwn ==
    IF IsSome(identity)
    THEN [state |-> "have", ident |-> identity, identity |-> identity,
          identityPromise |-> identityPromise, reads |-> 0]
    ELSE IF OverrideGiven
    THEN LET d == DecodeIdentity(Get(encodedIdentity))
         IN  IF IsSome(d)
             THEN [state |-> "have", ident |-> d, identity |-> d,
                   identityPromise |-> identityPromise, reads |-> 0]
             ELSE [state |-> "IdentityNotFound", ident |-> None, identity |-> identity,
                   identityPromise |-> identityPromise, reads |-> 0]
    ELSE IF ~identityExists
    THEN [state |-> "IdentityNotFound", ident |-> None, identity |-> identity,
          identityPromise |-> identityPromise, reads |-> 0]
    ELSE [state |-> "wait", ident |-> None, identity |-> identity,
          identityPromise |-> "pending", reads |-> 1]

\* loadIdentity() up to its return: the identity it resolves to at once
\* ("have"), the shared promise it hands out ("wait"), or the error it throws;
\* reads: whether it has begun to read the identity file.
sdkLoadIdentity ==
    IF IsSome(identity)
    THEN [state |-> "have", ident |-> identity, identity |-> identity,
          identityPromise |-> identityPromise, reads |-> 0]
    ELSE IF identityPromise # "none"
    THEN [state |-> "wait", ident |-> None, identity |-> identity,
          identityPromise |-> identityPromise, reads |-> 0]
    ELSE IF OverrideGiven
    THEN LET d == DecodeIdentity(Get(encodedIdentity))
         IN  IF IsSome(d)
             THEN [state |-> "have", ident |-> d, identity |-> d,
                   identityPromise |-> identityPromise, reads |-> 0]
             ELSE [state |-> "IdentityNotFound", ident |-> None, identity |-> identity,
                   identityPromise |-> identityPromise, reads |-> 0]
    ELSE IF ~identityExists
    THEN [state |-> "IdentityNotFound", ident |-> None, identity |-> identity,
          identityPromise |-> identityPromise, reads |-> 0]
    ELSE [state |-> "wait", ident |-> None, identity |-> identity,
          identityPromise |-> "pending", reads |-> 1]

\* The environment consulted only for keys the cache does not hold.
EnvLookupAfterCache(key) == IF key \in DOMAIN cache THEN None ELSE procEnv[key]

\* Step 1 of get(key): the value the process environment has for the key
EnvLookup(key) == procEnv[key]

\* Step 2 of get(key): the cache entry found after reloadEnv()
CacheLookup(c, key) == IF key \in DOMAIN c THEN Some(c[key]) ELSE None

\* line.key.startsWith("_")
IsPrivate(key) == StartsWith(key, <<"_">>)

\* The record line of a key, private or not.
VisibleLineAny(env, key) == findKey(env, key)

\* Step 3 of get(key): the record line the key resolves to, if it may be seen
VisibleLine(env, key) ==
    IF IsSome(findKey(env, key)) /\ ~IsPrivate(Get(findKey(env, key)).key)
    THEN findKey(env, key)
    ELSE None

\* A get(key) of a plaintext vault reference that caches the line's value
\* like any other plaintext value before asking the vault.
GetPlainVaultCaching(c, key, value, r) ==
    /\ SetReloaded(r, CacheSet(r.cache, key, value))
    /\ UNCHANGED <<identity, identityPromise, identityReads>>
    /\ VaultGet(c, key, SliceFrom(value, Len(VAULT_PREFIX)), "plainVault")

\* get(key) of a plaintext line that is a vault reference: the cache is left
\* as reloadEnv() left it and vaultGet answers.
GetPlainVault(c, key, value, r) ==
    /\ SetReloaded(r, r.cache)
    /\ UNCHANGED <<identity, identityPromise, identityReads>>
    /\ VaultGet(c, key, SliceFrom(value, Len(VAULT_PREFIX)), "plainVault")

\* get(key) of a plaintext line that is no vault reference: cached and returned
GetPlain(c, key, value, r) ==
    /\ SetReloaded(r, CacheSet(r.cache, key, value))
    /\ UNCHANGED <<identity, identityPromise, identityReads, vaultCache>>
    /\ Finish(c, GetRet(key, "ok", value, "plain"))

\* get(key) of an encrypted line, up to the await of loadIdentity()
GetEncrypted(c, key, value, r) ==
    LET li == sdkLoadIdentity
    IN  /\ SetReloaded(r, r.cache)
        /\ identity' = li.identity
        /\ identityPromise' = li.identityPromise
        /\ identityReads' = identityReads + li.reads
        /\ UNCHANGED vaultCache
        /\ IF li.state = "IdentityNotFound"
           THEN Finish(c, GetRet(key, "IdentityNotFound", <<>>, "enc"))
           ELSE Suspend(c, [pc |-> "awaitIdentity", key |-> key, value |-> value,
                            via |-> "enc", ident |-> li.ident, blob |-> None])

\* get(key), from its call to its first await or to its return
GetStart(c, key) ==
    /\ calls[c].pc = "idle"
    /\ UNCHANGED <<worldVars, vaultFile>>
    /\ IF IsSome(EnvLookup(key))
       THEN /\ Finish(c, GetRet(key, "ok", Get(EnvLookup(key)), "env"))
            /\ UNCHANGED <<sdkVars, vaultCache>>
       ELSE LET r == reloadEnv
            IN  IF IsSome(r.threw)
                THEN /\ SetReloaded(r, r.cache)
                     /\ UNCHANGED <<identity, identityPromise, identityReads, vaultCache>>
                     /\ Finish(c, GetRet(key, "ParseError", <<>>, ""))
                ELSE IF IsSome(CacheLookup(r.cache, key))
                THEN /\ SetReloaded(r, r.cache)
                     /\ UNCHANGED <<identity, identityPromise, identityReads, vaultCache>>
                     /\ Finish(c, GetRet(key, "ok", Get(CacheLookup(r.cache, key)),
                                         "cache"))
                ELSE IF ~IsSome(r.parsedEnv)
                        \/ ~IsSome(VisibleLine(Get(r.parsedEnv), key))
                THEN /\ SetReloaded(r, r.cache)
                     /\ UNCHANGED <<identity, identityPromise, identityReads, vaultCache>>
                     /\ Finish(c, GetRet(key, "SecretNotFound", <<>>, ""))
                ELSE LET line == Get(VisibleLine(Get(r.parsedEnv), key))
                     IN  IF ~line.encrypted
                         THEN IF isVaultReference(line.value)
                              THEN GetPlainVault(c, key, line.value, r)
                              ELSE GetPlain(c, key, line.value, r)
                         ELSE GetEncrypted(c, key, line.value, r)

\* The promise of age's loadIdentity() that #identityPromise holds settles.
IdentitySettle ==
    /\ identityPromise = "pending"
    /\ IF IsSome(ageLoadIdentity)
       THEN identity' = ageLoadIdentity /\ identityPromise' = "none"
       ELSE identityPromise' = "rejected" /\ UNCHANGED identity
    /\ UNCHANGED <<identityReads, worldVars, vaultFile, vaultCache, cache, cacheTimestamp,
                   cacheSize, parsedEnv, lastPath, calls, lastRet>>

\* get(key) resumes with the identity and calls decrypt on the text after
\* the marker.
GetAfterIdentity(c) ==
    /\ calls[c].pc = "awaitIdentity"
    /\ UNCHANGED <<worldVars, vaultFile, vaultCache, sdkVars>>
    /\ IF IsSome(calls[c].ident)
       THEN Suspend(c, [calls[c] EXCEPT !.pc = "awaitDecrypt"])
       ELSE /\ identityPromise # "pending"
            /\ IF identityPromise = "rejected"
               THEN Finish(c, GetRet(calls[c].key, "IdentityNotFound", <<>>, "enc"))
               ELSE Suspend(c, [calls[c] EXCEPT !.pc = "awaitDecrypt",
                                                !.ident = identity])

\* A get(key) that makes the cache entry before it looks at what decrypt gave.
GetAfterDecryptCachingFirst(c) ==
    LET call == calls[c]
        d    == decryptValue(Get(call.ident), SliceFrom(call.value, Len(ENCRYPTED_PREFIX)))
    IN  /\ call.pc = "awaitDecrypt"
        /\ UNCHANGED <<worldVars, vaultFile, identity, identityPromise, identityReads,
                       cacheTimestamp, cacheSize, parsedEnv, lastPath>>
        /\ cache' = CacheSet(cache, call.key, d.text)
        /\ IF ~d.ok
           THEN /\ Finish(c, GetRet(call.key, "DecryptionError", <<>>, "enc"))
                /\ UNCHANGED vaultCache
           ELSE IF isVaultReference(d.text)
           THEN VaultGet(c, call.key, SliceFrom(d.text, Len(VAULT_PREFIX)), "encVault")
           ELSE /\ Finish(c, GetRet(call.key, "ok", d.text, "enc"))
                /\ UNCHANGED vaultCache

\* get(key) resumes with the decrypted text: it is cached, then returned or,
\* when it is a vault reference, looked up in the vault.
GetAfterDecrypt(c) ==
    LET call == calls[c]
        d    == decryptValue(Get(call.ident), SliceFrom(call.value, Len(ENCRYPTED_PREFIX)))
    IN  /\ call.pc = "awaitDecrypt"
        /\ UNCHANGED <<worldVars, vaultFile, identity, identityPromise, identityReads,
                       cacheTimestamp, cacheSize, parsedEnv, lastPath>>
        /\ IF ~d.ok
           THEN /\ Finish(c, GetRet(call.key, "DecryptionError", <<>>, "enc"))
                /\ UNCHANGED <<cache, vaultCache>>
           ELSE /\ cache' = CacheSet(cache, call.key, d.text)
                /\ IF isVaultReference(d.text)
                   THEN VaultGet(c, call.key, SliceFrom(d.text, Len(VAULT_PREFIX)),
                                 "encVault")
                   ELSE /\ Finish(c, GetRet(call.key, "ok", d.text, "enc"))
                        /\ UNCHANGED vaultCache

\* loadVault() resumes with the identity, reads the vault file and calls
\* decryptString.
VaultAfterIdentity(c) ==
    LET call == calls[c]
    IN  /\ call.pc = "vaultIdentity"
        /\ UNCHANGED <<worldVars, vaultFile, vaultCache, sdkVars>>
        /\ IF ~IsSome(ageLoadIdentity)
           THEN Finish(c, GetRet(call.key, "IdentityNotFound", <<>>, call.via))
           ELSE IF ~IsSome(vaultFile)
           THEN Finish(c, GetRet(call.key, "VaultError", <<>>, call.via))
           ELSE Suspend(c, [call EXCEPT !.pc = "vaultDecrypt",
                                        !.ident = ageLoadIdentity,
                                        !.blob = vaultFile])

\* loadVault() resumes with the decrypted text, memoizes the snapshot, and
\* get(key) returns what the snapshot holds.
VaultAfterDecrypt(c) ==
    LET call == calls[c]
        e    == loadVaultEnd(Get(call.ident), Get(call.blob))
    IN  /\ call.pc = "vaultDecrypt"
        /\ UNCHANGED <<worldVars, vaultFile, sdkVars>>
        /\ vaultCache' = e.vaultCache
        /\ IF e.state = "loaded"
           THEN Finish(c, VaultLookup(call.key, call.value, e.map, call.via))
           ELSE Finish(c, GetRet(call.key, e.state, <<>>, call.via))

\* has(key)
Has(key) ==
    LET r == reloadEnv
        found == \/ IsSome(procEnv[key])
                 \/ /\ IsSome(r.parsedEnv)
                    /\ ~IsPrivate(key)
                    /\ key \in KeysOf(Get(r.parsedEnv))
    IN  /\ SetReloaded(r, r.cache)
        /\ UNCHANGED <<worldVars, vaultFile, vaultCache, identity, identityPromise, identityReads, calls>>
        /\ lastRet' = IF IsSome(r.threw)
                      THEN Ret("has", key, "ParseError", <<>>, FALSE, {}, "")
                      ELSE Ret("has", key, "ok", <<>>, found, {}, "")

\* keys()
Keys ==
    LET r == reloadEnv
        envKeys == {k \in DOMAIN procEnv : IsSome(procEnv[k])}
        recKeys == IF IsSome(r.parsedEnv)
                   THEN {k \in KeysOf(Get(r.parsedEnv)) : ~IsPrivate(k)}
                   ELSE {}
    IN  /\ SetReloaded(r, r.cache)
        /\ UNCHANGED <<worldVars, vaultFile, vaultCache, identity, identityPromise, identityReads, calls>>
        /\ lastRet' = IF IsSome(r.threw)
                      THEN Ret("keys", <<>>, "ParseError", <<>>, FALSE, {}, "")
                      ELSE Ret("keys", <<>>, "ok", <<>>, FALSE, envKeys \cup recKeys, "")

\* clearCache()
ClearCache ==
    /\ cache' = EmptyCache
    /\ cacheTimestamp' = 0
    /\ cacheSize' = 0
    /\ parsedEnv' = None
    /\ UNCHANGED <<worldVars, vaultFile, vaultCache, identity, identityPromise, identityReads,
                   lastPath, calls, lastRet>>

(***************************************************************************)
(* vault.ts: vaultSet, run to its end                                      *)
(***************************************************************************)
\* saveVault(data): the vault file and the snapshot it leaves, or its error
saveVault(data) ==
    IF ~identityExists \/ ~IsSome(ageLoadIdentity)
    THEN [state |-> "IdentityNotFound", vaultFile |-> vaultFile,
          vaultCache |-> Some(data)]
    ELSE [state |-> "saved",
          vaultFile |-> Some(encrypt(getPublicKey(Get(ageLoadIdentity)),
                                     FormatVault(data))),
          vaultCache |-> Some(data)]

\* vaultSet(key, value): loadVault, then under the lock the snapshot is
\* dropped, reloaded, changed in place and saved.
vaultSet(key, value) ==
    LET first == loadVaultWhole(vaultCache)
        latest == loadVaultWhole(None)
    IN  IF first.state # "loaded"
        THEN [state |-> first.state, vaultFile |-> vaultFile,
              vaultCache |-> first.vaultCache]
        ELSE IF latest.state # "loaded"
        THEN [state |-> latest.state, vaultFile |-> vaultFile, vaultCache |-> None]
        ELSE saveVault(MapSet(latest.map, key, value))

VaultSet(key, value) ==
    /\ vaultFile' = vaultSet(key, value).vaultFile
    /\ vaultCache' = vaultSet(key, value).vaultCache
    /\ UNCHANGED <<worldVars, sdkVars, calls, lastRet>>

(***************************************************************************)
(* vault.ts: the calls of one process, each run to its end, and what the   *)
(* user or another program does to the identity file and the vault file    *)
(* between them.                                                           *)
(***************************************************************************)
VaultKeyW == <<"W">>
VaultKeys == {VaultKeyV, VaultKeyW}
ValPadded == <<" ", "A">>
VaultValues == {ValA, ValB, ValPadded}

\* What the vault's exported functions gave their caller.
VaultRet(op, key, kind, value, keys) == Ret(op, key, kind, value, FALSE, keys, "vault")
KindOf(state) == IF state \in {"loaded", "saved"} THEN "ok" ELSE state

\* Everything of the resolver, the record file and the lock but what the
\* vault's functions read and write.
vaultRestVars == <<procEnv, encodedIdentity, file, mtime, lockVars, apartVars,
                   sdkVars, calls>>

\* loadVault()
LoadVaultCall ==
    LET r == loadVaultWhole(vaultCache)
    IN  /\ vaultCache' = r.vaultCache
        /\ lastRet' = VaultRet("loadVault", <<>>, KindOf(r.state), <<>>, MapKeys(r.map))
        /\ UNCHANGED <<vaultRestVars, identityFile, vaultFile>>

\* vaultGet(key): cache.get(key) of the snapshot loadVault returned
VaultGetCall(key) ==
    LET r == loadVaultWhole(vaultCache)
        v == MapGet(r.map, key)
    IN  /\ vaultCache' = r.vaultCache
        /\ lastRet' = IF r.state # "loaded"
                      THEN VaultRet("vaultGet", key, r.state, <<>>, {})
                      ELSE IF IsSome(v)
                      THEN VaultRet("vaultGet", key, "ok", Get(v), {})
                      ELSE VaultRet("vaultGet", key, "undefined", <<>>, {})
        /\ UNCHANGED <<vaultRestVars, identityFile, vaultFile>>

\* vaultSet(key, value), with what it gave its caller
VaultSetCall(key, value) ==
    LET r == vaultSet(key, value)
    IN  /\ vaultFile' = r.vaultFile
        /\ vaultCache' = r.vaultCache
        /\ lastRet' = VaultRet("vaultSet", key, KindOf(r.state), value, {})
        /\ UNCHANGED <<vaultRestVars, identityFile>>

\* A vaultSet in which the new file is in place when the failure is thrown.
VaultSetFailingAfterWrite(key, value) ==
    LET first  == loadVaultWhole(vaultCache)
        latest == loadVaultWhole(None)
        saved  == saveVault(MapSet(latest.map, key, value))
    IN  /\ first.state = "loaded"
        /\ latest.state = "loaded"
        /\ saved.state = "saved"
        /\ vaultFile' = saved.vaultFile
        /\ vaultCache' = Some(MapSet(latest.map, key, value))
        /\ lastRet' = VaultRet("vaultSet", key, "VaultError", value, {})
        /\ UNCHANGED <<vaultRestVars, identityFile>>

\* vaultSet(key, value) in which encrypt or writeAtomicRaw throws inside
\* saveVault: the error is rethrown as VaultError, the file is not replaced,
\* and the snapshot is the reloaded one with the entry already set in it.
VaultSetFailing(key, value) ==
    LET first  == loadVaultWhole(vaultCache)
        latest == loadVaultWhole(None)
        saved  == saveVault(MapSet(latest.map, key, value))
    IN  /\ first.state = "loaded"
        /\ latest.state = "loaded"
        /\ saved.state = "saved"
        /\ vaultFile' = vaultFile
        /\ vaultCache' = Some(MapSet(latest.map, key, value))
        /\ lastRet' = VaultRet("vaultSet", key, "VaultError", value, {})
        /\ UNCHANGED <<vaultRestVars, identityFile>>

\* vaultDelete(key): nothing to do when the snapshot lacks the key; else
\* under the lock the snapshot is dropped, reloaded, and saved without the
\* key if it still has it.
vaultDelete(key) ==
    LET first  == loadVaultWhole(vaultCache)
        latest == loadVaultWhole(None)
    IN  IF first.state # "loaded"
        THEN [state |-> first.state, vaultFile |-> vaultFile,
              vaultCache |-> first.vaultCache]
        ELSE IF ~MapHas(first.map, key)
        THEN [state |-> "loaded", vaultFile |-> vaultFile,
              vaultCache |-> first.vaultCache]
        ELSE IF latest.state # "loaded"
        THEN [state |-> latest.state, vaultFile |-> vaultFile, vaultCache |-> None]
        ELSE IF ~MapHas(latest.map, key)
        THEN [state |-> "loaded", vaultFile |-> vaultFile,
              vaultCache |-> latest.vaultCache]
        ELSE saveVault(MapDelete(latest.map, key))

VaultDeleteCall(key) ==
    LET r == vaultDelete(key)
    IN  /\ vaultFile' = r.vaultFile
        /\ vaultCache' = r.vaultCache
        /\ lastRet' = VaultRet("vaultDelete", key, KindOf(r.state), <<>>, {})
        /\ UNCHANGED <<vaultRestVars, identityFile>>

\* vaultDelete(key) in which encrypt or writeAtomicRaw throws inside
\* saveVault: the file is not replaced, and the snapshot is the reloaded one
\* with the entry already deleted from it.
VaultDeleteFailing(key) ==
    LET first  == loadVaultWhole(vaultCache)
        latest == loadVaultWhole(None)
        saved  == saveVault(MapDelete(latest.map, key))
    IN  /\ first.state = "loaded"
        /\ MapHas(first.map, key)
        /\ latest.state = "loaded"
        /\ MapHas(latest.map, key)
        /\ saved.state = "saved"
        /\ vaultFile' = vaultFile
        /\ vaultCache' = Some(MapDelete(latest.map, key))
        /\ lastRet' = VaultRet("vaultDelete", key, "VaultError", <<>>, {})
        /\ UNCHANGED <<vaultRestVars, identityFile>>

\* listVaultKeys()
ListVaultKeysCall ==
    LET r == loadVaultWhole(vaultCache)
    IN  /\ vaultCache' = r.vaultCache
        /\ lastRet' = VaultRet("listVaultKeys", <<>>, KindOf(r.state), <<>>, MapKeys(r.map))
        /\ UNCHANGED <<vaultRestVars, identityFile, vaultFile>>

\* clearVaultCache()
ClearVaultCache ==
    /\ vaultCache' = None
    /\ UNCHANGED <<vaultRestVars, identityFile, vaultFile, lastRet>>

\* The identity file is removed, or replaced by a freshly generated identity.
IdentityRemove ==
    /\ IsSome(identityFile)
    /\ identityFile' = None
    /\ UNCHANGED <<vaultRestVars, vaultFile, vaultCache, lastRet>>

IdentityPersist(id) ==
    /\ identityFile' = Some(id)
    /\ UNCHANGED <<vaultRestVars, vaultFile, vaultCache, lastRet>>

\* Something that is not a sealed message is written over the vault file.
VaultGarble ==
    /\ vaultFile' = Some(CorruptBlob)
    /\ UNCHANGED <<vaultRestVars, identityFile, vaultCache, lastRet>>

VaultRemove ==
    /\ IsSome(vaultFile)
    /\ vaultFile' = None
    /\ UNCHANGED <<vaultRestVars, identityFile, vaultCache, lastRet>>

\* Another process of the same user completes vaultSet(key, value): under
\* the lock it reloads the file, sets its key and saves.  Its snapshot is its
\* own; this process's vaultCache is not touched.
OtherProcessSet(key, value) ==
    LET latest == loadVaultWhole(None)
        saved  == saveVault(MapSet(latest.map, key, value))
    IN  /\ latest.state = "loaded"
        /\ saved.state = "saved"
        /\ vaultFile' = saved.vaultFile
        /\ UNCHANGED <<vaultRestVars, identityFile, vaultCache, lastRet>>

(***************************************************************************)
(* parse.ts: parseEnvFile called on the record file                        *)
(***************************************************************************)
MaxLines == 3    \* lines of a record file given to the parser

\* Lines a record file is made of: entries, one of them for a key a second
\* time, a line without separator, an empty line, a comment, a lowercase key,
\* a line without key, a line that starts with the byte-order mark, a line
\* with white space around it and a second "=" in it.
InputLines == {<<"K", "=", "A">>, <<"K", "=", "B">>, <<"J", "=", "A">>,
               <<"J">>, <<>>, <<"#">>, <<"k", "=", "A">>, <<"=", "A">>,
               <<"BOM", "K", "=", "A">>, <<" ", "J", "=", " ", "A", "=", "B", " ">>}
ParseInputs ==
    {Join(ls, "\n") : ls \in UNION {[1..n -> InputLines] : n \in 1..MaxLines}}

ParseCall ==
    /\ IsSome(file)
    /\ parseOut' = Some(parseEnvFile(file))
    /\ UNCHANGED <<procEnv, file, mtime, encodedIdentity, identityFile, lockVars,
                   vaultProcs, vaultLock, cwd, elsewhere, vaultFile, vaultCache,
                   sdkVars, calls, lastRet>>

(***************************************************************************)
(* vault.ts: vaultSet in several processes                                 *)
(*                                                                         *)
(* Each process has its own memoized snapshot; the vault file and the      *)
(* marker beside it are shared.  The withLock that vault.ts imports is not *)
(* among the sources: taking and releasing the marker follow the           *)
(* specification, exclusive creation with bounded retries.  saveVault      *)
(* replaces the file by rename, in one step.                               *)
(***************************************************************************)
\* The processes that share the vault file, each with its own vault module.
VaultProcs == {"p1", "p2"}
IdleVaultProc == [pc |-> "idle", vaultCache |-> None, key |-> <<>>, value |-> <<>>]

\* The key each process sets.
VaultSetOf == [p \in VaultProcs |-> IF p = "p1" THEN VaultKeyV ELSE VaultKeyW]

procRestVars == <<procEnv, encodedIdentity, identityFile, file, mtime, lockVars,
                  parseOut, cwd, elsewhere, vaultCache, sdkVars, calls, lastRet>>

\* loadVault() in process p, outside any vaultSet: it memoizes a snapshot.
PLoadVault(p) ==
    /\ vaultProcs[p].pc = "idle"
    /\ ~IsSome(vaultProcs[p].vaultCache)
    /\ loadVaultWhole(None).state = "loaded"
    /\ vaultProcs' = [vaultProcs EXCEPT ![p].vaultCache = loadVaultWhole(None).vaultCache]
    /\ UNCHANGED <<procRestVars, vaultFile, vaultLock>>

\* vaultSet(key, value) up to withLock: loadVault() returns the memoized
\* snapshot, or loads one.
PVaultSetCall(p, key, value) ==
    LET first == loadVaultWhole(vaultProcs[p].vaultCache)
    IN  /\ vaultProcs[p].pc = "idle"
        /\ first.state = "loaded"
        /\ vaultProcs' = [vaultProcs EXCEPT ![p] =
                              [pc |-> "waiting", vaultCache |-> first.vaultCache,
                               key |-> key, value |-> value]]
        /\ UNCHANGED <<procRestVars, vaultFile, vaultLock>>

\* withLock: the marker is created when none is there.
PAcquire(p) ==
    /\ vaultProcs[p].pc = "waiting"
    /\ vaultLock = None
    /\ vaultLock' = Some(p)
    /\ vaultProcs' = [vaultProcs EXCEPT ![p].pc = "locked"]
    /\ UNCHANGED <<procRestVars, vaultFile>>

\* withLock: the retries are used up while another process holds the marker.
PLockTimeout(p) ==
    /\ vaultProcs[p].pc = "waiting"
    /\ vaultLock # None
    /\ vaultProcs' = [vaultProcs EXCEPT ![p].pc = "FileError"]
    /\ UNCHANGED <<procRestVars, vaultFile, vaultLock>>

\* The callback's reload served from the snapshot the process already holds.
PReloadFromSnapshot(p) ==
    LET latest == loadVaultWhole(vaultProcs[p].vaultCache)
    IN  /\ vaultProcs[p].pc = "locked"
        /\ latest.state = "loaded"
        /\ vaultProcs' = [vaultProcs EXCEPT ![p].pc = "reloaded",
                                            ![p].vaultCache = latest.vaultCache]
        /\ UNCHANGED <<procRestVars, vaultFile, vaultLock>>

\* Under the lock: vaultCache = null; latest = await loadVault()
PReload(p) ==
    LET latest == loadVaultWhole(None)
    IN  /\ vaultProcs[p].pc = "locked"
        /\ latest.state = "loaded"
        /\ vaultProcs' = [vaultProcs EXCEPT ![p].pc = "reloaded",
                                            ![p].vaultCache = latest.vaultCache]
        /\ UNCHANGED <<procRestVars, vaultFile, vaultLock>>

\* Under the lock: latest.set(key, value); await saveVault(latest)
PSave(p) ==
    LET data  == MapSet(Get(vaultProcs[p].vaultCache), vaultProcs[p].key,
                        vaultProcs[p].value)
        saved == saveVault(data)
    IN  /\ vaultProcs[p].pc = "reloaded"
        /\ saved.state = "saved"
        /\ vaultFile' = saved.vaultFile
        /\ vaultProcs' = [vaultProcs EXCEPT ![p].pc = "saved",
                                            ![p].vaultCache = Some(data)]
        /\ UNCHANGED <<procRestVars, vaultLock>>

\* withLock: the marker is removed and vaultSet returns.
PRelease(p) ==
    /\ vaultProcs[p].pc = "saved"
    /\ vaultLock' = None
    /\ vaultProcs' = [vaultProcs EXCEPT ![p].pc = "done"]
    /\ UNCHANGED <<procRestVars, vaultFile>>

(***************************************************************************)
(* The environment of the resolver                                         *)
(***************************************************************************)
SetEnv(key, value) ==
    /\ procEnv' = [procEnv EXCEPT ![key] = Some(value)]
    /\ UNCHANGED <<restVars, file, mtime, vaultFile,
                   vaultCache, sdkVars, calls, lastRet>>

UnsetEnv(key) ==
    /\ IsSome(procEnv[key])
    /\ procEnv' = [procEnv EXCEPT ![key] = None]
    /\ UNCHANGED <<restVars, file, mtime, vaultFile,
                   vaultCache, sdkVars, calls, lastRet>>

\* Another process or an editor replaces the record file; the clock may not
\* have advanced since the last write.
ExternalWrite(text) ==
    /\ file' = Some(text)
    /\ \E t \in {mtime, mtime + 1} : t <= MaxMtime /\ mtime' = t
    /\ UNCHANGED <<procEnv, restVars, vaultFile,
                   vaultCache, sdkVars, calls, lastRet>>

ExternalDelete ==
    /\ IsSome(file)
    /\ file' = None
    /\ UNCHANGED <<procEnv, restVars, mtime, vaultFile,
                   vaultCache, sdkVars, calls, lastRet>>

\* process.chdir(): the record path now resolves in the other directory, to
\* the file that is there.
Chdir ==
    /\ cwd' = IF cwd = "/proj" THEN "/other" ELSE "/proj"
    /\ file' = elsewhere.file
    /\ mtime' = elsewhere.mtime
    /\ elsewhere' = [file |-> file, mtime |-> mtime]
    /\ UNCHANGED <<procEnv, encodedIdentity, identityFile, lockVars, parseOut,
                   vaultProcs, vaultLock, vaultFile, vaultCache, sdkVars, calls,
                   lastRet>>

(***************************************************************************)
(* parse.ts: withLock, writeAtomic, writeAtomicRaw                         *)
(*                                                                         *)
(* Independent processes replace the file at one path.  Each call of       *)
(* writeAtomic is a sequence of file-system steps; the steps of different  *)
(* processes interleave.                                                   *)
(***************************************************************************)
Writers == {"w1", "w2"}

\* The number of times withLock tries to create the marker.
LockRetries == 100

\* What each process writes.
ContentOf == [w \in Writers |-> IF w = "w1" THEN TextKA ELSE TextKB]

\* Date.now() at the time writeAtomicRaw names its temporary file.
TmpStamps == {1, 2}

\* A marker somebody left behind: it names a process that does not run.
StaleMarker == [pid |-> <<"9", "9", "9", "9", "9", "9">>, by |-> "gone"]

\* op: the call in progress ("writeAtomic", "setKey" or "deleteKey").
\* toRead: the protected action still has to read the file and work out the
\* content it writes (setKey); key and value are what setKey was given.
IdleWriter == [pc |-> "idle", retries |-> 0, content |-> <<>>, tmpPath |-> 0,
               toRead |-> FALSE, op |-> "", key |-> <<>>, value |-> <<>>]

ApartIdle ==
    /\ parseOut = None
    /\ vaultProcs = [p \in VaultProcs |-> IdleVaultProc]
    /\ vaultLock = None
    /\ cwd = "/proj"
    /\ elsewhere = [file |-> None, mtime |-> 1]

LockIdle ==
    /\ lockFile = None
    /\ dest = None
    /\ tmpFiles = [t \in TmpStamps |-> None]
    /\ writers = [w \in Writers |-> IdleWriter]
    /\ readSeen = None
    /\ ApartIdle

\* An open that does not insist on creating the marker.
MarkerIgnored(marker) == TRUE

\* fs.openSync(lockPath, 'wx') succeeds exactly when nothing is at lockPath.
MarkerAbsent(marker) == ~IsSome(marker)

\* A loop exit that goes on to the protected action in either case.
LoopExitUnchecked(lockFd) == "locked"

\* After the loop: without a descriptor the call throws the timeout FileError,
\* with one it goes on to the protected action.
LoopExit(lockFd) == IF IsSome(lockFd) THEN "locked" ELSE "timeout"

\* writeAtomic(filePath, content) enters withLock.
WriteAtomicCall(p, content) ==
    /\ writers[p].pc = "idle"
    /\ writers' = [writers EXCEPT ![p] =
           [pc |-> "acquire", retries |-> LockRetries, content |-> content,
            tmpPath |-> 0, toRead |-> FALSE, op |-> "writeAtomic",
            key |-> <<>>, value |-> <<>>]]
    /\ UNCHANGED <<lockFile, dest, tmpFiles>>

\* One turn of the loop: create the marker, or count the refusal down.
\* The marker is created empty.
\* The counter is not read again once the loop is left.
TryLock(p) ==
    /\ writers[p].pc = "acquire"
    /\ writers[p].retries > 0
    /\ IF MarkerAbsent(lockFile)
       THEN /\ lockFile' = Some([pid |-> <<>>, by |-> p])
            /\ writers' = [writers EXCEPT ![p].pc = LoopExit(Some(p)),
                                          ![p].retries = 0]
       ELSE /\ lockFile' = lockFile
            /\ writers' = [writers EXCEPT ![p].retries = @ - 1]
    /\ UNCHANGED <<dest, tmpFiles>>

\* The loop ends with no retries left and no descriptor.
LockTimeout(p) ==
    /\ writers[p].pc = "acquire"
    /\ writers[p].retries = 0
    /\ writers' = [writers EXCEPT ![p].pc = LoopExit(None)]
    /\ UNCHANGED <<lockFile, dest, tmpFiles>>

\* What setKey is given by each process.
SetOf == [w \in Writers |->
            IF w = "w1" THEN [key |-> <<"K">>, value |-> ValA]
            ELSE [key |-> <<"J">>, value |-> ValB]]

\* setKey(filePath, key, encryptedValue) enters withLock.
SetKeyCall(p, key, value) ==
    /\ writers[p].pc = "idle"
    /\ writers' = [writers EXCEPT ![p] =
           [pc |-> "acquire", retries |-> LockRetries, content |-> <<>>,
            tmpPath |-> 0, toRead |-> TRUE, op |-> "setKey",
            key |-> key, value |-> value]]
    /\ UNCHANGED <<lockFile, dest, tmpFiles>>

\* fs.existsSync(filePath) ? fs.readFileSync(filePath, 'utf-8') : ''
ReadOrEmpty(f) == IF IsSome(f) THEN Get(f) ELSE <<>>

\* A protected action that works from an empty content whatever the file holds.
SetKeyReadNothing(p) ==
    /\ writers[p].pc = "locked"
    /\ writers[p].toRead
    /\ writers[p].op = "setKey"
    /\ writers' = [writers EXCEPT
           ![p].content = setKey(<<>>, writers[p].key, writers[p].value),
           ![p].toRead = FALSE]
    /\ UNCHANGED <<lockFile, dest, tmpFiles>>

\* setKey's protected action up to its call of writeAtomicRaw: the file is
\* read and the new content worked out.
SetKeyRead(p) ==
    /\ writers[p].pc = "locked"
    /\ writers[p].toRead
    /\ writers[p].op = "setKey"
    /\ writers' = [writers EXCEPT
           ![p].content = setKey(ReadOrEmpty(dest), writers[p].key, writers[p].value),
           ![p].toRead = FALSE]
    /\ UNCHANGED <<lockFile, dest, tmpFiles>>

\* deleteKey(filePath, key) enters withLock.
DeleteKeyCall(p, key) ==
    /\ writers[p].pc = "idle"
    /\ writers' = [writers EXCEPT ![p] =
           [pc |-> "acquire", retries |-> LockRetries, content |-> <<>>,
            tmpPath |-> 0, toRead |-> TRUE, op |-> "deleteKey",
            key |-> key, value |-> <<>>]]
    /\ UNCHANGED <<lockFile, dest, tmpFiles>>

\* deleteKey's protected action up to its call of writeAtomicRaw
DeleteKeyRead(p) ==
    /\ writers[p].pc = "locked"
    /\ writers[p].toRead
    /\ writers[p].op = "deleteKey"
    /\ writers' = [writers EXCEPT
           ![p].content = deleteKey(ReadOrEmpty(dest), writers[p].key),
           ![p].toRead = FALSE]
    /\ UNCHANGED <<lockFile, dest, tmpFiles>>

\* writeAtomicRaw: the temporary sibling is written.
WriteTmp(p) ==
    /\ writers[p].pc = "locked"
    /\ ~writers[p].toRead
    /\ \E t \in TmpStamps :
        /\ tmpFiles' = [tmpFiles EXCEPT ![t] = Some(writers[p].content)]
        /\ writers' = [writers EXCEPT ![p].pc = "tmpWritten", ![p].tmpPath = t]
    /\ UNCHANGED <<lockFile, dest>>

\* The part of a content that is on disk when a write is half done.
PartOf(content) == SubSeq(content, 1, 2)

\* A write that puts its first part straight into the destination.
WriteInPlacePart(p) ==
    /\ writers[p].pc = "locked"
    /\ ~writers[p].toRead
    /\ \E t \in TmpStamps :
        /\ dest' = Some(PartOf(writers[p].content))
        /\ writers' = [writers EXCEPT ![p].pc = "tmpPartial", ![p].tmpPath = t]
    /\ UNCHANGED <<lockFile, tmpFiles>>

\* writeAtomicRaw: writeFileSync has written the first part of the temporary
\* sibling.
WriteTmpPart(p) ==
    /\ writers[p].pc = "locked"
    /\ ~writers[p].toRead
    /\ \E t \in TmpStamps :
        /\ tmpFiles' = [tmpFiles EXCEPT ![t] = Some(PartOf(writers[p].content))]
        /\ writers' = [writers EXCEPT ![p].pc = "tmpPartial", ![p].tmpPath = t]
    /\ UNCHANGED <<lockFile, dest>>

\* writeAtomicRaw: writeFileSync has written the rest.
WriteTmpRest(p) ==
    /\ writers[p].pc = "tmpPartial"
    /\ tmpFiles' = [tmpFiles EXCEPT ![writers[p].tmpPath] = Some(writers[p].content)]
    /\ writers' = [writers EXCEPT ![p].pc = "tmpWritten"]
    /\ UNCHANGED <<lockFile, dest>>

\* An unlocked reader reads the whole file at the path, or finds none.
Read ==
    /\ readSeen' = Some(dest)
    /\ UNCHANGED <<lockFile, dest, tmpFiles, writers>>

\* writeAtomicRaw: the temporary sibling is renamed over the destination.
Rename(p) ==
    /\ writers[p].pc = "tmpWritten"
    /\ IsSome(tmpFiles[writers[p].tmpPath])
    /\ dest' = tmpFiles[writers[p].tmpPath]
    /\ tmpFiles' = [tmpFiles EXCEPT ![writers[p].tmpPath] = None]
    /\ writers' = [writers EXCEPT ![p].pc = "renamed"]
    /\ UNCHANGED lockFile

\* A failure path that throws FileError without removing the temporary sibling.
WriteFailKeepingTmp(p) ==
    /\ writers[p].pc \in {"locked", "tmpPartial", "tmpWritten"}
    /\ writers' = [writers EXCEPT ![p].pc = "fnFailed"]
    /\ UNCHANGED <<lockFile, dest, tmpFiles>>

\* writeAtomicRaw: a file-system call fails; the temporary sibling is removed
\* if it exists and FileError is thrown through withLock's finally.
WriteFail(p) ==
    /\ writers[p].pc \in {"locked", "tmpPartial", "tmpWritten"}
    /\ tmpFiles' = IF writers[p].pc \in {"tmpPartial", "tmpWritten"}
                   THEN [tmpFiles EXCEPT ![writers[p].tmpPath] = None]
                   ELSE tmpFiles
    /\ writers' = [writers EXCEPT ![p].pc = "fnFailed"]
    /\ UNCHANGED <<lockFile, dest>>

\* A release that removes the marker only when the protected action returned.
UnlockOnReturnOnly(p) ==
    /\ writers[p].pc \in {"renamed", "fnFailed"}
    /\ lockFile' = IF writers[p].pc = "renamed" THEN None ELSE lockFile
    /\ writers' = [writers EXCEPT ![p].pc =
           IF writers[p].pc = "renamed" THEN "done" ELSE "failed"]
    /\ UNCHANGED <<dest, tmpFiles>>

\* withLock's finally: the marker at lockPath is removed.
Unlock(p) ==
    /\ writers[p].pc \in {"renamed", "fnFailed"}
    /\ lockFile' = None
    /\ writers' = [writers EXCEPT ![p].pc =
           IF writers[p].pc = "renamed" THEN "done" ELSE "failed"]
    /\ UNCHANGED <<dest, tmpFiles>>

\* The process dies between creating the marker and removing it.
Crash(p) ==
    /\ writers[p].pc \in {"locked", "tmpPartial", "tmpWritten", "renamed", "fnFailed"}
    /\ writers' = [writers EXCEPT ![p].pc = "dead"]
    /\ UNCHANGED <<lockFile, dest, tmpFiles>>

\* The call has returned or thrown; the process may call again.
Return(p) ==
    /\ writers[p].pc \in {"done", "failed", "timeout"}
    /\ writers' = [writers EXCEPT ![p] = IdleWriter]
    /\ UNCHANGED <<lockFile, dest, tmpFiles>>

\* writeAtomic as parse.ts has it, and writeAtomicRaw called by itself: the
\* caller takes no marker and stands at once where the temporary sibling is
\* named and written.
WriteAtomicRawCall(p, content) ==
    /\ writers[p].pc = "idle"
    /\ writers' = [writers EXCEPT ![p] =
           [IdleWriter EXCEPT !.pc = "locked", !.content = content,
                              !.op = "writeAtomicRaw"]]
    /\ UNCHANGED <<lockFile, dest, tmpFiles>>

\* That call has returned after its rename, or thrown FileError.
RawReturn(p) ==
    /\ writers[p].op = "writeAtomicRaw"
    /\ writers[p].pc \in {"renamed", "fnFailed"}
    /\ writers' = [writers EXCEPT ![p] = IdleWriter]
    /\ UNCHANGED <<lockFile, dest, tmpFiles>>

(***************************************************************************)
(* parse.ts: setKey and deleteKey by one process                           *)
(*                                                                         *)
(* No other process holds the marker of the path: each call takes it,      *)
(* rewrites the file and releases it, and is one step here.                *)
(***************************************************************************)
\* Lines of the record files the calls start from: two entries, a comment,
\* an empty line.
RecordLines == {<<"A", "=", "1">>, <<"B", "=", "2">>, <<"#">>, <<>>}

\* The record files of up to MaxLines lines, with or without a newline at
\* their end, that parse.
RecordFiles ==
    {t \in UNION {{Join(ls, "\n"), Join(ls, "\n") \o <<"\n">>} :
                    ls \in UNION {[1..n -> RecordLines] : n \in 1..MaxLines}} :
        parseEnvFile(Some(t)).ok}

MaxContent == 12    \* characters of a record file that setKey is still called on

MutateKeys == {<<"A">>, <<"B">>}
MutateValues == {<<"1">>, <<"3">>}

mutateRestVars == <<procEnv, encodedIdentity, identityFile, file, mtime, lockFile,
                    tmpFiles, writers, readSeen, apartVars, vaultFile, vaultCache,
                    sdkVars, calls>>

\* setKey(filePath, key, encryptedValue)
SetKeyDone(key, value) ==
    /\ lockFile = None
    /\ Len(ReadOrEmpty(dest)) <= MaxContent
    /\ dest' = Some(setKey(ReadOrEmpty(dest), key, value))
    /\ lastRet' = Ret("setKey", key, "ok", value, FALSE, {}, "")
    /\ UNCHANGED mutateRestVars

\* deleteKey(filePath, key)
DeleteKeyDone(key) ==
    /\ lockFile = None
    /\ dest' = Some(deleteKey(ReadOrEmpty(dest), key))
    /\ lastRet' = Ret("deleteKey", key, "ok", <<>>, FALSE, {}, "")
    /\ UNCHANGED mutateRestVars

InitialVault == <<<<VaultKeyV, ValA>>>>

Init ==
    /\ procEnv = [k \in GetKeys |-> None]
    /\ encodedIdentity = None
    /\ file = None
    /\ mtime = 1
    /\ identityFile = Some("id1")
    /\ vaultFile = None
    /\ vaultCache = None
    /\ identity = None
    /\ identityPromise = "none"
    /\ identityReads = 0
    /\ cache = EmptyCache
    /\ cacheTimestamp = 0
    /\ cacheSize = 0
    /\ parsedEnv = None
    /\ lastPath = ""
    /\ calls = [c \in Calls |-> IdleCall]
    /\ lastRet = NoRet
    /\ LockIdle

\* The resolver over records without vault references: environment, cache,
\* plaintext and encrypted entries, private keys, a malformed file.
PlainTexts == {TextKA, TextKB, TextKEncA, TextPrivate, TextBroken}

Next ==
    \/ \E c \in Calls, k \in GetKeys : GetStart(c, k)
    \/ IdentitySettle
    \/ \E c \in Calls : GetAfterIdentity(c)
    \/ \E c \in Calls : GetAfterDecrypt(c)
    \/ \E k \in GetKeys : Has(k)
    \/ Keys
    \/ ClearCache
    \/ \E k \in GetKeys : SetEnv(k, ValA)
    \/ \E k \in GetKeys : UnsetEnv(k)
    \/ \E t \in PlainTexts : ExternalWrite(t)
    \/ ExternalDelete

Spec == Init /\ [][Next]_vars

\* The resolver over records whose entry is a vault reference, in plaintext
\* or encrypted, with the vault changed by vaultSet in the same process.
VaultTexts == {TextKVault, TextKEncVault}

NextVaultRef ==
    \/ \E c \in Calls : GetStart(c, KeyK)
    \/ IdentitySettle
    \/ \E c \in Calls : GetAfterIdentity(c)
    \/ \E c \in Calls : GetAfterDecrypt(c)
    \/ \E c \in Calls : VaultAfterIdentity(c)
    \/ \E c \in Calls : VaultAfterDecrypt(c)
    \/ \E v \in {ValA, ValB} : VaultSet(VaultKeyV, v)
    \/ \E t \in VaultTexts : ExternalWrite(t)

InitVaultRef ==
    /\ procEnv = [k \in GetKeys |-> None]
    /\ encodedIdentity = None
    /\ file = None
    /\ mtime = 1
    /\ identityFile = Some("id1")
    /\ vaultFile \in {None, Some(encrypt("id1", FormatVault(InitialVault)))}
    /\ vaultCache = None
    /\ identity = None
    /\ identityPromise = "none"
    /\ identityReads = 0
    /\ cache = EmptyCache
    /\ cacheTimestamp = 0
    /\ cacheSize = 0
    /\ parsedEnv = None
    /\ lastPath = ""
    /\ calls = [c \in Calls |-> IdleCall]
    /\ lastRet = NoRet
    /\ LockIdle

SpecVaultRef == InitVaultRef /\ [][NextVaultRef]_vars

\* One resolver while the process changes directory between two records.
TextXB == <<"X", "=", "B", "\n">>
RootTexts == {TextKA, TextXB, TextBroken}

NextRoot ==
    \/ \E c \in Calls, k \in GetKeys : GetStart(c, k)
    \/ \E k \in GetKeys : Has(k)
    \/ Keys
    \/ SetEnv(KeyK, ValB)
    \/ UnsetEnv(KeyK)
    \/ \E t \in RootTexts : ExternalWrite(t)
    \/ ExternalDelete
    \/ Chdir

SpecRoot == Init /\ [][NextRoot]_vars

\* The resolver asked for one key by get, has and keys, over records that
\* hold the key encrypted, hold another key only, or do not parse.
VisibleTexts == {TextKEncA, TextXB, TextBroken}

NextVisible ==
    \/ \E c \in Calls : GetStart(c, KeyK)
    \/ IdentitySettle
    \/ \E c \in Calls : GetAfterIdentity(c)
    \/ \E c \in Calls : GetAfterDecrypt(c)
    \/ Has(KeyK)
    \/ Keys
    \/ ClearCache
    \/ SetEnv(KeyK, ValB)
    \/ UnsetEnv(KeyK)
    \/ \E t \in VisibleTexts : ExternalWrite(t)
    \/ ExternalDelete

SpecVisible == Init /\ [][NextVisible]_vars

\* The resolver over a record file that is rewritten, now and then with a
\* content that does not parse, of the size of a good one or not.
TextKAA == <<"K", "A", "A", "\n">>
MalformedTexts == {TextKA, TextKEncA, TextKAA, TextBroken}

NextMalformed ==
    \/ \E c \in Calls : GetStart(c, KeyK)
    \/ IdentitySettle
    \/ \E c \in Calls : GetAfterIdentity(c)
    \/ \E c \in Calls : GetAfterDecrypt(c)
    \/ Has(KeyK)
    \/ Keys
    \/ SetEnv(KeyK, ValB)
    \/ UnsetEnv(KeyK)
    \/ \E t \in MalformedTexts : ExternalWrite(t)

SpecMalformed == Init /\ [][NextMalformed]_vars

\* Gets of encrypted entries while the identity file is removed or replaced
\* by another identity: the record holds a blob sealed to either recipient.
TextKEncB == <<"K", "=">> \o ENCRYPTED_PREFIX \o <<"z", "\n">>
EncryptedTexts == {TextKEncA, TextKEncB}

NextIdentity ==
    \/ \E c \in Calls : GetStart(c, KeyK)
    \/ IdentitySettle
    \/ \E c \in Calls : GetAfterIdentity(c)
    \/ \E c \in Calls : GetAfterDecrypt(c)
    \/ ClearCache
    \/ \E t \in EncryptedTexts : ExternalWrite(t)
    \/ IdentityRemove
    \/ \E id \in Identities : IdentityPersist(id)

SpecIdentity == Init /\ [][NextIdentity]_vars

\* Gets of an encrypted entry while SECENV_ENCODED_IDENTITY is set, changed
\* and unset: a valid override, one in the URL-safe alphabet, one with
\* malformed padding, one that decodes to another text, the empty one, a
\* valid one with white space around it.
OverrideValid ==
    <<"Q", "U", "d", "F", "L", "V", "N", "F", "Q", "1", "J", "F", "V", "C",
      "1", "L", "R", "V", "k", "t", "M", "U", "E", "=">>
OverrideUrlSafe ==
    <<"Q", "U", "d", "F", "-", "_", "N", "F", "Q", "1", "J", "F", "V", "C",
      "1", "L", "R", "V", "k", "t", "M", "U", "E", "=">>
OverridePadding == <<"Q", "U", "d", "F", "=">>
OverrideNoKey ==
    <<"b", "m", "9", "0", "L", "W", "E", "t", "d", "m", "F", "s", "a", "W",
      "Q", "t", "a", "2", "V", "5">>
Overrides == {OverrideValid, OverrideUrlSafe, OverridePadding, OverrideNoKey,
              <<>>, <<" ">> \o OverrideValid \o <<"\n">>}

SetOverride(value) ==
    /\ encodedIdentity' = Some(value)
    /\ UNCHANGED <<procEnv, file, mtime, identityFile, lockVars, apartVars,
                   vaultFile, vaultCache, sdkVars, calls, lastRet>>

UnsetOverride ==
    /\ IsSome(encodedIdentity)
    /\ encodedIdentity' = None
    /\ UNCHANGED <<procEnv, file, mtime, identityFile, lockVars, apartVars,
                   vaultFile, vaultCache, sdkVars, calls, lastRet>>

NextOverride ==
    \/ \E c \in Calls : GetStart(c, KeyK)
    \/ IdentitySettle
    \/ \E c \in Calls : GetAfterIdentity(c)
    \/ \E c \in Calls : GetAfterDecrypt(c)
    \/ ClearCache
    \/ ExternalWrite(TextKEncA)
    \/ \E v \in Overrides : SetOverride(v)
    \/ UnsetOverride
    \/ IdentityRemove
    \/ IdentityPersist("id1")

SpecOverride == Init /\ [][NextOverride]_vars

\* One process uses the vault through its exported functions while the
\* identity file and the vault file change under it.
NextVault ==
    \/ LoadVaultCall
    \/ \E k \in VaultKeys : VaultGetCall(k)
    \/ \E k \in VaultKeys, v \in VaultValues : VaultSetCall(k, v)
    \/ ListVaultKeysCall
    \/ ClearVaultCache
    \/ IdentityRemove
    \/ \E id \in Identities : IdentityPersist(id)
    \/ VaultGarble
    \/ VaultRemove

InitVault == InitVaultRef /\ vaultFile = None

SpecVault == InitVault /\ [][NextVault]_vars

\* One process reads, sets and deletes keys of the vault while another
\* process of the same user sets keys in the same vault file.
NextVaultShared ==
    \/ LoadVaultCall
    \/ \E k \in VaultKeys : VaultGetCall(k)
    \/ \E k \in VaultKeys, v \in VaultValues : VaultSetCall(k, v)
    \/ \E k \in VaultKeys : VaultDeleteCall(k)
    \/ ClearVaultCache
    \/ \E k \in VaultKeys, v \in {ValA, ValB} : OtherProcessSet(k, v)

SpecVaultShared == InitVault /\ [][NextVaultShared]_vars

\* One process reads, sets and deletes keys of the vault, and some of its
\* saves fail.
NextVaultUnsaved ==
    \/ LoadVaultCall
    \/ \E k \in VaultKeys : VaultGetCall(k)
    \/ \E k \in VaultKeys, v \in {ValA, ValB} : VaultSetCall(k, v)
    \/ \E k \in VaultKeys, v \in {ValA, ValB} : VaultSetFailing(k, v)
    \/ \E k \in VaultKeys : VaultDeleteCall(k)
    \/ \E k \in VaultKeys : VaultDeleteFailing(k)
    \/ ClearVaultCache

SpecVaultUnsaved == InitVaultRef /\ [][NextVaultUnsaved]_vars

\* The parser applied to one record file out of all those of up to MaxLines
\* lines.
NextParse == ParseCall

InitParse ==
    /\ procEnv = [k \in GetKeys |-> None]
    /\ encodedIdentity = None
    /\ file \in {Some(t) : t \in ParseInputs}
    /\ mtime = 1
    /\ identityFile = Some("id1")
    /\ vaultFile = None
    /\ vaultCache = None
    /\ identity = None
    /\ identityPromise = "none"
    /\ identityReads = 0
    /\ cache = EmptyCache
    /\ cacheTimestamp = 0
    /\ cacheSize = 0
    /\ parsedEnv = None
    /\ lastPath = ""
    /\ calls = [c \in Calls |-> IdleCall]
    /\ lastRet = NoRet
    /\ LockIdle

SpecParse == InitParse /\ [][NextParse]_vars

\* Two processes, each with its own snapshot of the vault, each call
\* vaultSet once, for different keys.
NextVaultProcs ==
    \/ \E p \in VaultProcs : PLoadVault(p)
    \/ \E p \in VaultProcs, v \in {ValA, ValB} : PVaultSetCall(p, VaultSetOf[p], v)
    \/ \E p \in VaultProcs : PAcquire(p)
    \/ \E p \in VaultProcs : PLockTimeout(p)
    \/ \E p \in VaultProcs : PReload(p)
    \/ \E p \in VaultProcs : PSave(p)
    \/ \E p \in VaultProcs : PRelease(p)

SpecVaultProcs == InitVaultRef /\ [][NextVaultProcs]_vars

\* One process changes a record file by setKey and deleteKey.
NextMutate ==
    \/ \E k \in MutateKeys, v \in MutateValues : SetKeyDone(k, v)
    \/ \E k \in MutateKeys : DeleteKeyDone(k)

InitMutate ==
    /\ procEnv = [k \in GetKeys |-> None]
    /\ encodedIdentity = None
    /\ file = None
    /\ mtime = 1
    /\ identityFile = Some("id1")
    /\ vaultFile = None
    /\ vaultCache = None
    /\ identity = None
    /\ identityPromise = "none"
    /\ identityReads = 0
    /\ cache = EmptyCache
    /\ cacheTimestamp = 0
    /\ cacheSize = 0
    /\ parsedEnv = None
    /\ lastPath = ""
    /\ calls = [c \in Calls |-> IdleCall]
    /\ lastRet = NoRet
    /\ lockFile = None
    /\ dest \in {None} \cup {Some(t) : t \in RecordFiles}
    /\ tmpFiles = [t \in TmpStamps |-> None]
    /\ writers = [w \in Writers |-> IdleWriter]
    /\ readSeen = None
    /\ ApartIdle

SpecMutate == InitMutate /\ [][NextMutate]_vars

\* Two processes write one path; the resolver stands still.  The path may
\* start with a marker that a process no longer running left behind.
resolverVars == <<apartVars, procEnv, file, mtime, encodedIdentity, identityFile,
                  vaultFile, vaultCache, sdkVars, calls, lastRet>>

NextLock ==
    \/ \E p \in Writers : WriteAtomicCall(p, ContentOf[p]) /\ UNCHANGED <<resolverVars, readSeen>>
    \/ \E p \in Writers : TryLock(p) /\ UNCHANGED <<resolverVars, readSeen>>
    \/ \E p \in Writers : LockTimeout(p) /\ UNCHANGED <<resolverVars, readSeen>>
    \/ \E p \in Writers : WriteTmp(p) /\ UNCHANGED <<resolverVars, readSeen>>
    \/ \E p \in Writers : Rename(p) /\ UNCHANGED <<resolverVars, readSeen>>
    \/ \E p \in Writers : WriteFail(p) /\ UNCHANGED <<resolverVars, readSeen>>
    \/ \E p \in Writers : Unlock(p) /\ UNCHANGED <<resolverVars, readSeen>>
    \/ \E p \in Writers : Crash(p) /\ UNCHANGED <<resolverVars, readSeen>>
    \/ \E p \in Writers : Return(p) /\ UNCHANGED <<resolverVars, readSeen>>

InitLock ==
    /\ procEnv = [k \in GetKeys |-> None]
    /\ encodedIdentity = None
    /\ file = None
    /\ mtime = 1
    /\ identityFile = Some("id1")
    /\ vaultFile = None
    /\ vaultCache = None
    /\ identity = None
    /\ identityPromise = "none"
    /\ identityReads = 0
    /\ cache = EmptyCache
    /\ cacheTimestamp = 0
    /\ cacheSize = 0
    /\ parsedEnv = None
    /\ lastPath = ""
    /\ calls = [c \in Calls |-> IdleCall]
    /\ lastRet = NoRet
    /\ lockFile \in {None, Some(StaleMarker)}
    /\ dest = None
    /\ tmpFiles = [t \in TmpStamps |-> None]
    /\ writers = [w \in Writers |-> IdleWriter]
    /\ readSeen = None
    /\ ApartIdle

SpecLock == InitLock /\ [][NextLock]_vars

\* Calls that fail: one process sets or deletes a key of a record file
\* whose marker may have been left behind by a process that is gone, or whose
\* write fails; it also sets and deletes a key of the vault while the
\* identity file goes away, the vault file is garbled, or the save fails.
FailingWriter == "w1"
ContentBefore == Some(<<"K", "=", "B", "\n", "X", "=", "B", "\n">>)

NextFail ==
    \/ SetKeyCall(FailingWriter, KeyK, ValA) /\ UNCHANGED <<resolverVars, readSeen>>
    \/ DeleteKeyCall(FailingWriter, KeyK) /\ UNCHANGED <<resolverVars, readSeen>>
    \/ TryLock(FailingWriter) /\ UNCHANGED <<resolverVars, readSeen>>
    \/ LockTimeout(FailingWriter) /\ UNCHANGED <<resolverVars, readSeen>>
    \/ SetKeyRead(FailingWriter) /\ UNCHANGED <<resolverVars, readSeen>>
    \/ DeleteKeyRead(FailingWriter) /\ UNCHANGED <<resolverVars, readSeen>>
    \/ WriteTmp(FailingWriter) /\ UNCHANGED <<resolverVars, readSeen>>
    \/ Rename(FailingWriter) /\ UNCHANGED <<resolverVars, readSeen>>
    \/ WriteFail(FailingWriter) /\ UNCHANGED <<resolverVars, readSeen>>
    \/ Unlock(FailingWriter) /\ UNCHANGED <<resolverVars, readSeen>>
    \/ \E v \in {ValA, ValB} : VaultSetCall(VaultKeyV, v)
    \/ \E v \in {ValA, ValB} : VaultSetFailing(VaultKeyV, v)
    \/ VaultDeleteCall(VaultKeyV)
    \/ IdentityRemove
    \/ VaultGarble

InitFail ==
    /\ procEnv = [k \in GetKeys |-> None]
    /\ encodedIdentity = None
    /\ file = None
    /\ mtime = 1
    /\ identityFile = Some("id1")
    /\ vaultFile \in {None, Some(encrypt("id1", FormatVault(InitialVault)))}
    /\ vaultCache = None
    /\ identity = None
    /\ identityPromise = "none"
    /\ identityReads = 0
    /\ cache = EmptyCache
    /\ cacheTimestamp = 0
    /\ cacheSize = 0
    /\ parsedEnv = None
    /\ lastPath = ""
    /\ calls = [c \in Calls |-> IdleCall]
    /\ lastRet = NoRet
    /\ lockFile \in {None, Some(StaleMarker)}
    /\ dest = ContentBefore
    /\ tmpFiles = [t \in TmpStamps |-> None]
    /\ writers = [w \in Writers |-> IdleWriter]
    /\ readSeen = None
    /\ ApartIdle

SpecFail == InitFail /\ [][NextFail]_vars

\* The writers of one path, their writes seen part by part, and a reader of
\* the path that takes no lock.
NextRead ==
    \/ \E p \in Writers : WriteAtomicCall(p, ContentOf[p]) /\ UNCHANGED <<resolverVars, readSeen>>
    \/ \E p \in Writers : TryLock(p) /\ UNCHANGED <<resolverVars, readSeen>>
    \/ \E p \in Writers : LockTimeout(p) /\ UNCHANGED <<resolverVars, readSeen>>
    \/ \E p \in Writers : WriteTmp(p) /\ UNCHANGED <<resolverVars, readSeen>>
    \/ \E p \in Writers : WriteTmpPart(p) /\ UNCHANGED <<resolverVars, readSeen>>
    \/ \E p \in Writers : WriteTmpRest(p) /\ UNCHANGED <<resolverVars, readSeen>>
    \/ \E p \in Writers : Rename(p) /\ UNCHANGED <<resolverVars, readSeen>>
    \/ \E p \in Writers : WriteFail(p) /\ UNCHANGED <<resolverVars, readSeen>>
    \/ \E p \in Writers : Unlock(p) /\ UNCHANGED <<resolverVars, readSeen>>
    \/ \E p \in Writers : Crash(p) /\ UNCHANGED <<resolverVars, readSeen>>
    \/ \E p \in Writers : Return(p) /\ UNCHANGED <<resolverVars, readSeen>>
    \/ Read /\ UNCHANGED resolverVars

InitRead ==
    /\ InitLock
    /\ lockFile = None

SpecRead == InitRead /\ [][NextRead]_vars

\* Two processes write one path by writeAtomic without a lock around it.
NextRaw ==
    \/ \E p \in Writers : WriteAtomicRawCall(p, ContentOf[p]) /\ UNCHANGED <<resolverVars, readSeen>>
    \/ \E p \in Writers : WriteTmp(p) /\ UNCHANGED <<resolverVars, readSeen>>
    \/ \E p \in Writers : WriteTmpPart(p) /\ UNCHANGED <<resolverVars, readSeen>>
    \/ \E p \in Writers : WriteTmpRest(p) /\ UNCHANGED <<resolverVars, readSeen>>
    \/ \E p \in Writers : Rename(p) /\ UNCHANGED <<resolverVars, readSeen>>
    \/ \E p \in Writers : WriteFail(p) /\ UNCHANGED <<resolverVars, readSeen>>
    \/ \E p \in Writers : RawReturn(p) /\ UNCHANGED <<resolverVars, readSeen>>

SpecRaw == InitRead /\ [][NextRaw]_vars

\* Two processes each call setKey once on one path, for different keys.
InitialRecords == {None, Some(<<"K", "=", "B", "\n", "X", "=", "B", "\n">>)}

NextSet ==
    \/ \E p \in Writers : SetKeyCall(p, SetOf[p].key, SetOf[p].value)
                            /\ UNCHANGED <<resolverVars, readSeen>>
    \/ \E p \in Writers : TryLock(p) /\ UNCHANGED <<resolverVars, readSeen>>
    \/ \E p \in Writers : LockTimeout(p) /\ UNCHANGED <<resolverVars, readSeen>>
    \/ \E p \in Writers : SetKeyRead(p) /\ UNCHANGED <<resolverVars, readSeen>>
    \/ \E p \in Writers : WriteTmp(p) /\ UNCHANGED <<resolverVars, readSeen>>
    \/ \E p \in Writers : Rename(p) /\ UNCHANGED <<resolverVars, readSeen>>
    \/ \E p \in Writers : WriteFail(p) /\ UNCHANGED <<resolverVars, readSeen>>
    \/ \E p \in Writers : Unlock(p) /\ UNCHANGED <<resolverVars, readSeen>>

InitSet ==
    /\ procEnv = [k \in GetKeys |-> None]
    /\ encodedIdentity = None
    /\ file = None
    /\ mtime = 1
    /\ identityFile = Some("id1")
    /\ vaultFile = None
    /\ vaultCache = None
    /\ identity = None
    /\ identityPromise = "none"
    /\ identityReads = 0
    /\ cache = EmptyCache
    /\ cacheTimestamp = 0
    /\ cacheSize = 0
    /\ parsedEnv = None
    /\ lastPath = ""
    /\ calls = [c \in Calls |-> IdleCall]
    /\ lastRet = NoRet
    /\ lockFile = None
    /\ dest \in InitialRecords
    /\ tmpFiles = [t \in TmpStamps |-> None]
    /\ writers = [w \in Writers |-> IdleWriter]
    /\ readSeen = None
    /\ ApartIdle

SpecSet == InitSet /\ [][NextSet]_vars

\* Two processes set and delete keys of one record file, call after call;
\* one of the keys they set is not a name the naming policy allows.
KeySpaceK == <<" ", "K">>
UniqueKeys == {KeyK, <<"J">>, KeySpaceK}

SetKeyCallBounded(p, key, value) ==
    /\ Len(ReadOrEmpty(dest)) <= MaxContent
    /\ SetKeyCall(p, key, value)

NextUnique ==
    \/ \E p \in Writers, k \in UniqueKeys : SetKeyCallBounded(p, k, ValA)
                            /\ UNCHANGED <<resolverVars, readSeen>>
    \/ \E p \in Writers : DeleteKeyCall(p, KeyK) /\ UNCHANGED <<resolverVars, readSeen>>
    \/ \E p \in Writers : TryLock(p) /\ UNCHANGED <<resolverVars, readSeen>>
    \/ \E p \in Writers : LockTimeout(p) /\ UNCHANGED <<resolverVars, readSeen>>
    \/ \E p \in Writers : SetKeyRead(p) /\ UNCHANGED <<resolverVars, readSeen>>
    \/ \E p \in Writers : DeleteKeyRead(p) /\ UNCHANGED <<resolverVars, readSeen>>
    \/ \E p \in Writers : WriteTmp(p) /\ UNCHANGED <<resolverVars, readSeen>>
    \/ \E p \in Writers : Rename(p) /\ UNCHANGED <<resolverVars, readSeen>>
    \/ \E p \in Writers : Unlock(p) /\ UNCHANGED <<resolverVars, readSeen>>
    \/ \E p \in Writers : Return(p) /\ UNCHANGED <<resolverVars, readSeen>>

SpecUnique == InitSet /\ [][NextUnique]_vars

(***************************************************************************)
(* Properties of the resolver                                              *)
(***************************************************************************)
\* The value the record file on disk gives a key that may be seen, when the
\* file parses and the entry is plaintext and no vault reference.
RecordValue(k) ==
    LET p == parseEnvFile(file)
    IN  IF IsSome(file) /\ p.ok /\ IsSome(VisibleLine(p, k))
           /\ ~Get(VisibleLine(p, k)).encrypted
           /\ ~isVaultReference(Get(VisibleLine(p, k)).value)
        THEN Some(Get(VisibleLine(p, k)).value)
        ELSE None

\* The state clearCache() leaves.
Invalidated ==
    cache = EmptyCache /\ cacheTimestamp = 0 /\ cacheSize = 0 /\ parsedEnv = None

\* Call c returns to its caller in this step.
Completes(c) ==
    /\ \/ \E k \in GetKeys : GetStart(c, k)
       \/ GetAfterIdentity(c)
       \/ GetAfterDecrypt(c)
       \/ VaultAfterIdentity(c)
       \/ VaultAfterDecrypt(c)
    /\ calls'[c].pc = "idle"

\* C1: while the process environment sets K, get(K) returns the environment's
\* value whatever the cache and the record hold; with the variable removed and
\* the cache invalidated, get(K) returns the value the record file gives K.
C1_EnvWinsThenRecord ==
    [][\A c \in Calls, k \in GetKeys :
          GetStart(c, k) =>
            /\ IsSome(procEnv[k]) =>
                 lastRet' = GetRet(k, "ok", Get(procEnv[k]), "env")
            /\ (~IsSome(procEnv[k]) /\ Invalidated /\ IsSome(RecordValue(k))) =>
                 (lastRet'.kind = "ok" /\ lastRet'.value = Get(RecordValue(k)))]_vars

\* C1 witness: get(K) has returned the environment's A while the record file
\* and the cache both hold B for K.
C1_Witness ==
    /\ lastRet = GetRet(KeyK, "ok", ValA, "env")
    /\ RecordValue(KeyK) = Some(ValB)
    /\ KeyK \in DOMAIN cache /\ cache[KeyK] = ValB

\* C1 witness of the second half is the state get(K) leaves after the variable
\* was removed and the cache cleared.
C1_WitnessRecord ==
    /\ lastRet = GetRet(KeyK, "ok", ValB, "plain")
    /\ ~IsSome(procEnv[KeyK])
    /\ RecordValue(KeyK) = Some(ValB)

\* C2: once get(K) has cached a plaintext value, a record file rewritten with
\* another fingerprint (mtime, size) makes the next get(K) return the value
\* the new file gives K.
C2_RewriteSeen ==
    [][\A c \in Calls, k \in GetKeys :
          (/\ GetStart(c, k)
           /\ ~IsSome(procEnv[k])
           /\ k \in DOMAIN cache
           /\ IsSome(file)
           /\ (mtime # cacheTimestamp \/ Len(Get(file)) # cacheSize)
           /\ IsSome(RecordValue(k)))
          => lastRet' = GetRet(k, "ok", Get(RecordValue(k)), "plain")]_vars

\* C2 witness: get(K) has cached A, and the file now gives K the value B under
\* another modification time.
C2_Witness ==
    /\ lastRet = GetRet(KeyK, "ok", ValA, "plain")
    /\ KeyK \in DOMAIN cache /\ cache[KeyK] = ValA
    /\ ~IsSome(procEnv[KeyK])
    /\ RecordValue(KeyK) = Some(ValB)
    /\ mtime # cacheTimestamp

\* The texts a parsed line stands for: its value, or what its blob opens to.
LineTexts(line) ==
    IF line.encrypted
    THEN {decryptValue(id, SliceFrom(line.value, Len(ENCRYPTED_PREFIX))).text :
            id \in {i \in Identities :
                      decryptValue(i, SliceFrom(line.value, Len(ENCRYPTED_PREFIX))).ok}}
    ELSE {line.value}

\* C3: whenever the resolver records a parsed version of the file, every cache
\* entry holds the value its key has in that version.
C3_CacheWithinFingerprint ==
    \A k \in DOMAIN cache :
        IsSome(parsedEnv) =>
            /\ IsSome(findKey(Get(parsedEnv), k))
            /\ cache[k] \in LineTexts(Get(findKey(Get(parsedEnv), k)))

\* C7 as claimed: a key beginning with _ is never visible, whatever the
\* record and the process environment hold.
C7_PrivateNeverVisible ==
    /\ (lastRet.op = "get" /\ IsPrivate(lastRet.key) /\ lastRet.kind # "ParseError")
          => lastRet.kind = "SecretNotFound"
    /\ (lastRet.op = "has" /\ IsPrivate(lastRet.key)) => ~lastRet.flag
    /\ lastRet.op = "keys" => \A k \in lastRet.keys : ~IsPrivate(k)

\* C7 amended: a key beginning with _ that the process environment does not
\* set is never visible: get fails with SecretNotFound, has answers false and
\* keys() does not list it, whatever the record holds.
C7_PrivateRecordKeyHidden ==
    [][/\ \A c \in Calls, k \in GetKeys :
            (GetStart(c, k) /\ IsPrivate(k) /\ ~IsSome(procEnv[k]))
            => /\ lastRet'.op = "get" /\ lastRet'.key = k
               /\ lastRet'.kind \in {"SecretNotFound", "ParseError"}
               /\ lastRet'.kind = "ParseError" => IsSome(reloadEnv.threw)
       /\ \A k \in GetKeys :
            (Has(k) /\ IsPrivate(k) /\ ~IsSome(procEnv[k])) => ~lastRet'.flag
       /\ Keys => \A k \in lastRet'.keys : IsPrivate(k) => IsSome(procEnv[k])]_vars

\* C7 witness: get("_P") has failed with SecretNotFound although the record
\* the resolver parsed holds an entry _P.
C7_Witness ==
    /\ lastRet = GetRet(KeyP, "SecretNotFound", <<>>, "")
    /\ IsSome(parsedEnv) /\ KeyP \in KeysOf(Get(parsedEnv))
    /\ ~IsSome(procEnv[KeyP])

\* The vault holds no value for a key, on disk or in the snapshot.
VaultFileMap ==
    IF IsSome(vaultFile) /\ IsSome(identityFile)
       /\ decryptString(Get(identityFile), Get(vaultFile)).ok
    THEN ParseVault(decryptString(Get(identityFile), Get(vaultFile)).text)
    ELSE EmptyMap
VaultHasNo(vk) ==
    /\ ~MapHas(VaultFileMap, vk)
    /\ IsSome(vaultCache) => ~MapHas(Get(vaultCache), vk)

\* C4: get(K) of a plaintext entry K=vault:V, with no V in the vault, fails
\* with VaultError.
C4_VaultMissIsVaultError ==
    [][\A c \in Calls :
          (Completes(c) /\ lastRet'.via = "plainVault" /\ VaultHasNo(VaultKeyV))
          => lastRet' = GetRet(KeyK, "VaultError", <<>>, "plainVault")]_vars

\* C4 witness: get(K) has failed with VaultError on the record K=vault:V.
C4_Witness ==
    /\ lastRet = GetRet(KeyK, "VaultError", <<>>, "plainVault")
    /\ file = Some(TextKVault)
    /\ VaultHasNo(VaultKeyV)

C6_NeverReferenceText ==
    (lastRet.op = "get" /\ lastRet.kind = "ok") => ~isVaultReference(lastRet.value)


(***************************************************************************)
(* Properties of the lock                                                  *)
(***************************************************************************)
\* The process created the marker and has not yet removed it.
Holding(p) ==
    writers[p].pc \in {"locked", "tmpPartial", "tmpWritten", "renamed", "fnFailed"}

\* The marker at lockPath was left by a process that does not run.
MarkerIsStale ==
    /\ IsSome(lockFile)
    /\ \/ Get(lockFile).by = "gone"
       \/ /\ Get(lockFile).by \in Writers
          /\ writers[Get(lockFile).by].pc = "dead"

\* C8: for one path, at most one process at a time is between acquiring the
\* lock and releasing it, so at most one executes the protected action.
C8_MutualExclusion == Cardinality({p \in Writers : Holding(p)}) <= 1

\* One process executes the protected action while the other has been
\* refused the marker at least once.
C8_Witness ==
    \E p, q \in Writers :
        /\ writers[p].pc = "tmpWritten"
        /\ writers[q].pc = "acquire"
        /\ writers[q].retries < LockRetries

\* C9: a marker naming a process that does not run is reclaimed within the
\* retry budget: no acquirer gives up with the timeout error while the
\* marker in its way is one a dead process left.
C9_StaleMarkerReclaimed ==
    \A p \in Writers : writers[p].pc = "timeout" => ~MarkerIsStale

\* C10: an acquirer that finds the marker in place on every attempt counts
\* each refusal down, changes nothing on disk, and after the last attempt
\* stops with the timeout error: the protected action is not entered, the
\* destination and the marker stay as they are.
C10_TimeoutLeavesAll ==
    [][\A q \in Writers :
        /\ (TryLock(q) /\ IsSome(lockFile)) =>
              /\ writers'[q].pc = "acquire"
              /\ writers'[q].retries = writers[q].retries - 1
              /\ lockFile' = lockFile /\ dest' = dest /\ tmpFiles' = tmpFiles
        /\ (writers[q].pc = "acquire" /\ writers'[q].pc = "timeout") =>
              /\ writers[q].retries = 0
              /\ lockFile' = lockFile /\ dest' = dest /\ tmpFiles' = tmpFiles
        /\ (writers[q].pc = "acquire" /\ writers'[q].pc \notin {"acquire", "timeout"}) =>
              /\ ~IsSome(lockFile)
              /\ writers[q].retries > 0
              /\ writers'[q].pc = "locked"]_vars

\* An acquirer has timed out on the marker of a process that runs and still
\* holds it; the destination was never written.
C10_Witness ==
    \E p, q \in Writers :
        /\ writers[q].pc = "timeout"
        /\ Holding(p)
        /\ lockFile = Some([pid |-> <<>>, by |-> p])
        /\ dest = None

PidOf == [w \in Writers |-> IF w = "w1" THEN <<"1">> ELSE <<"2">>]

\* C12: whenever a marker created by an acquirer exists, its content is the
\* process identifier of the process that acquired it.
C12_MarkerHoldsOwnerPid ==
    (IsSome(lockFile) /\ Get(lockFile).by \in Writers)
        => Get(lockFile).pid = PidOf[Get(lockFile).by]

SerialResults(d0) ==
    {Some(setKey(setKey(ReadOrEmpty(d0), SetOf[o[1]].key, SetOf[o[1]].value),
                 SetOf[o[2]].key, SetOf[o[2]].value)) :
        o \in {x \in Writers \X Writers : x[1] # x[2]}}

\* The value the file gives a key, if it parses and holds the key.
FileValue(f, key) ==
    IF IsSome(f) /\ parseEnvFile(f).ok /\ IsSome(findKey(parseEnvFile(f), key))
    THEN Some(Get(findKey(parseEnvFile(f), key)).value)
    ELSE None

DiskValue(key) ==
    IF IsSome(vaultFile) /\ IsSome(ageLoadIdentity)
       /\ decryptString(Get(ageLoadIdentity), Get(vaultFile)).ok
    THEN MapGet(ParseVault(decryptString(Get(ageLoadIdentity), Get(vaultFile)).text), key)
    ELSE None

\* C16: for every vault key X and value v, once vaultSet(X, v) has completed,
\* vaultGet(X) returns v: the memoized snapshot holds v for X, and so does the
\* vault file when it is decrypted and parsed again, which is what vaultGet
\* returns after clearVaultCache().
C16_SetThenGetReturnsValue ==
    [][\A k \in VaultKeys, v \in VaultValues :
        (VaultSetCall(k, v) /\ lastRet'.kind = "ok")
            => /\ IsSome(vaultCache') /\ MapGet(Get(vaultCache'), k) = Some(v)
               /\ IsSome(vaultFile')
               /\ decryptString(Get(ageLoadIdentity), Get(vaultFile')).ok
               /\ MapGet(ParseVault(decryptString(Get(ageLoadIdentity),
                                                  Get(vaultFile')).text), k)
                    = Some(v)]_vars


\* A call of loadVault, vaultGet or listVaultKeys: the functions that only
\* read the vault.
VaultReadCall == LoadVaultCall \/ ListVaultKeysCall \/ \E k \in VaultKeys : VaultGetCall(k)
VaultWriteCall == \E k \in VaultKeys, v \in VaultValues : VaultSetCall(k, v)

C18_WitnessMissing ==
    /\ lastRet = VaultRet("loadVault", <<>>, "ok", <<>>, {})
    /\ vaultFile = None
    /\ ~identityExists
    /\ vaultCache = Some(EmptyMap)

\* The vault file's content does not decrypt under the identity loadIdentity
\* gives.
Undecryptable ==
    /\ IsSome(vaultFile)
    /\ identityExists
    /\ IsSome(ageLoadIdentity)
    /\ ~decryptString(Get(ageLoadIdentity), Get(vaultFile)).ok

\* C19: when the vault file exists and does not decrypt under the loaded
\* identity, a loadVault that reads it (directly, or inside vaultGet,
\* listVaultKeys or vaultSet) fails with VaultError and leaves no snapshot
\* memoized, so the next vaultGet loads again instead of being served from
\* the failed load; vaultSet leaves the file as it is.
C19_FailedLoadMemoizesNothing ==
    [][/\ (VaultReadCall /\ ~IsSome(vaultCache) /\ Undecryptable)
            => /\ lastRet'.kind = "VaultError"
               /\ vaultCache' = None
       /\ (VaultWriteCall /\ Undecryptable)
            => /\ lastRet'.kind = "VaultError"
               /\ vaultCache' = None
               /\ vaultFile' = vaultFile]_vars

\* vaultGet has failed with VaultError over a garbled vault file.
C19_Witness ==
    /\ lastRet = VaultRet("vaultGet", VaultKeyV, "VaultError", <<>>, {})
    /\ vaultFile = Some(CorruptBlob)
    /\ identityExists
    /\ vaultCache = None

\* vaultGet has failed with VaultError over a vault sealed to another identity.
C19_WitnessOtherIdentity ==
    /\ lastRet = VaultRet("vaultGet", VaultKeyV, "VaultError", <<>>, {})
    /\ IsSome(vaultFile) /\ Get(vaultFile).rcpt = "id1"
    /\ identityFile = Some("id2")
    /\ vaultCache = None


(***************************************************************************)
(* The parser                                                              *)
(***************************************************************************)
\* The lines of the record file given to the parser.
FileLines == Split(Get(file), "\n")

\* The keys that two entry lines of the file give.
DuplicatedKeys ==
    {k \in {EntryKey(FileLines[j]) : j \in 1..Len(FileLines)} \ {<<>>} :
        \E i, j \in 1..Len(FileLines) :
            i < j /\ EntryKey(FileLines[i]) = k /\ EntryKey(FileLines[j]) = k}

\* Line j is neither empty nor a comment and gives no key, or it gives the
\* key of a line before it.
Offending(j) ==
    \/ /\ Trim(FileLines[j]) # <<>>
       /\ Head(Trim(FileLines[j])) # "#"
       /\ EntryKey(FileLines[j]) = <<>>
    \/ /\ EntryKey(FileLines[j]) # <<>>
       /\ \E i \in 1..(j - 1) : EntryKey(FileLines[i]) = EntryKey(FileLines[j])

\* C20 as stated: parsing an input in which some key appears on two entry
\* lines fails with the ParseError that names that key, and returns no Record.
C20_DuplicateAlwaysNamed ==
    IsSome(parseOut) =>
        \A k \in DuplicatedKeys :
            /\ ~Get(parseOut).ok
            /\ Get(parseOut).lines = <<>>
            /\ IsSome(Get(parseOut).error)
            /\ Get(Get(parseOut).error).err = "ParseError:duplicate key"
            /\ Get(Get(parseOut).error).key = k

\* C20: parsing an input in which some key appears on two entry lines fails
\* with ParseError and returns no Record; the error is that of the first
\* offending line of the file, and it names the duplicated key when that
\* line is the second entry line of a key.
C20_DuplicateFailsAtFirstOffence ==
    (IsSome(parseOut) /\ DuplicatedKeys # {}) =>
        LET out == Get(parseOut)
            first == CHOOSE j \in 1..Len(FileLines) :
                        Offending(j) /\ \A i \in 1..(j - 1) : ~Offending(i)
        IN  /\ ~out.ok
            /\ out.lines = <<>>
            /\ IsSome(out.error)
            /\ Get(out.error).err \in {"ParseError:duplicate key",
                                       "ParseError:missing separator",
                                       "ParseError:missing key"}
            /\ Get(out.error).lineNumber = first
            /\ Get(out.error).raw = FileLines[first]
            /\ EntryKey(FileLines[first]) # <<>>
                => /\ Get(out.error).err = "ParseError:duplicate key"
                   /\ Get(out.error).key = EntryKey(FileLines[first])

\* The file KEY=VAL1, KEY=VAL2 of the parser's tests has been parsed.
C20_Witness ==
    /\ file = Some(<<"K", "=", "A", "\n", "K", "=", "B">>)
    /\ IsSome(parseOut)
    /\ ~Get(parseOut).ok
    /\ Get(Get(parseOut).error).key = KeyK
    /\ Get(Get(parseOut).error).lineNumber = 2


(***************************************************************************)
(* The vault shared by processes                                           *)
(***************************************************************************)
\* C17: when two processes, each with a snapshot memoized or not, each call
\* vaultSet for its own key, once both have returned the vault file decrypts
\* to a map holding both keys with the values set; and no save under the
\* lock drops or changes an entry of another key that the file held.
C17_BothKeysAfterConcurrentSets ==
    /\ (\A p \in VaultProcs : vaultProcs[p].pc = "done")
        => /\ IsSome(vaultFile)
           /\ decryptString("id1", Get(vaultFile)).ok
           /\ \A p \in VaultProcs :
                 MapGet(ParseVault(decryptString("id1", Get(vaultFile)).text),
                        vaultProcs[p].key) = Some(vaultProcs[p].value)
    /\ \A p \in VaultProcs :
          vaultProcs[p].pc \in {"reloaded", "saved"} => vaultLock = Some(p)

\* Both processes have returned; the first to save held a snapshot memoized
\* before the other's key was in the file, and still holds one without it.
C17_Witness ==
    /\ \A p \in VaultProcs : vaultProcs[p].pc = "done"
    /\ IsSome(vaultFile)
    /\ MapKeys(ParseVault(decryptString("id1", Get(vaultFile)).text))
         = {VaultKeyV, VaultKeyW}
    /\ \E p \in VaultProcs :
          /\ IsSome(vaultProcs[p].vaultCache)
          /\ ~MapHas(Get(vaultProcs[p].vaultCache), VaultKeyV)


\* The characters the key-naming policy allows: uppercase letters, digits
\* and the underscore.
KeyChars == {"A", "B", "C", "D", "E", "F", "G", "H", "I", "J", "K", "L", "M",
             "N", "O", "P", "Q", "R", "S", "T", "U", "V", "W", "X", "Y", "Z",
             "0", "1", "2", "3", "4", "5", "6", "7", "8", "9", "_"}
ValidKey(key) == \A i \in 1..Len(key) : key[i] \in KeyChars

\* No line of the file is one at which parseEnvFile gives ParseError.
WellFormed == \A j \in 1..Len(FileLines) : ~Offending(j)

\* C21: parsing a structurally well-formed file that has a key with a
\* character other than an uppercase letter, a digit or an underscore fails
\* with ValidationError naming that key, never with ParseError, and gives no
\* Record.
C21_InvalidKeyIsValidationError ==
    (IsSome(parseOut) /\ WellFormed
        /\ \E j \in 1..Len(FileLines) : ~ValidKey(EntryKey(FileLines[j])))
    => /\ ~Get(parseOut).ok
       /\ IsSome(Get(parseOut).error)
       /\ Get(Get(parseOut).error).err = "ValidationError"
       /\ ~ValidKey(Get(Get(parseOut).error).key)


\* Line j is neither empty nor a comment, and has no "=" or nothing before
\* its first "=".
Malformed(j) ==
    /\ Trim(FileLines[j]) # <<>>
    /\ Head(Trim(FileLines[j])) # "#"
    /\ EntryKey(FileLines[j]) = <<>>

\* The first line of the file at which the parser throws.
FirstOffending ==
    CHOOSE j \in 1..Len(FileLines) : Offending(j) /\ \A i \in 1..(j - 1) : ~Offending(i)

Entries(out) ==
    LET idx == {j \in 1..Len(out.lines) : out.lines[j].key # <<>>}
    IN  [j \in idx |-> <<out.lines[j].key, out.lines[j].value>>]

\* C23: a file that is a byte-order mark followed by some content parses to
\* the same outcome as that content alone: the same keys and values on the
\* same lines when it parses, with the first key free of the mark, and an
\* error of the same kind on the same line when it does not.
C23_ByteOrderMarkStripped ==
    (IsSome(parseOut) /\ Get(file) # <<>> /\ Head(Get(file)) = "BOM") =>
        LET out == Get(parseOut)
            bare == parseEnvFile(Some(Tail(Get(file))))
        IN  /\ out.ok = bare.ok
            /\ out.ok => /\ Entries(out) = Entries(bare)
                         /\ \A j \in 1..Len(out.lines) :
                               out.lines[j].key = <<>> \/ Head(out.lines[j].key) # "BOM"
            /\ ~out.ok => /\ Get(out.error).err = Get(bare.error).err
                          /\ Get(out.error).lineNumber = Get(bare.error).lineNumber

\* The file BOM KEY=VALUE has been parsed: its one key is K, its value A.
C23_Witness ==
    /\ file = Some(<<"BOM", "K", "=", "A">>)
    /\ IsSome(parseOut)
    /\ Get(parseOut).ok
    /\ Get(parseOut).lines[1].key = KeyK
    /\ Get(parseOut).lines[1].value = ValA


EntrySeq(content) ==
    LET ls == SelectSeq(parseEnvFile(Some(content)).lines, LAMBDA l : l.key # <<>>)
    IN  [j \in 1..Len(ls) |-> <<ls[j].key, ls[j].value>>]

HasKey(content, key) == \E j \in 1..Len(EntrySeq(content)) : EntrySeq(content)[j][1] = key

\* C25: setKey on a record that holds K puts K=v where K's entry was and
\* leaves the other entries and their order as they were; deleteKey takes
\* K's entry out and leaves the others; from A=1, B=2 the set of B to 3 gives
\* exactly A=1, B=3 and the delete of A then gives exactly B=3.
C25_SetReplacesDeleteRemoves ==
    [][/\ \A k \in MutateKeys, v \in MutateValues :
            (SetKeyDone(k, v) /\ IsSome(dest) /\ HasKey(Get(dest), k))
                => /\ parseEnvFile(dest').ok
                   /\ EntrySeq(Get(dest')) =
                        [j \in 1..Len(EntrySeq(Get(dest))) |->
                            IF EntrySeq(Get(dest))[j][1] = k THEN <<k, v>>
                            ELSE EntrySeq(Get(dest))[j]]
       /\ \A k \in MutateKeys :
            (DeleteKeyDone(k) /\ IsSome(dest) /\ HasKey(Get(dest), k))
                => /\ parseEnvFile(dest').ok
                   /\ EntrySeq(Get(dest')) =
                        SelectSeq(EntrySeq(Get(dest)), LAMBDA e : e[1] # k)
       /\ (SetKeyDone(<<"B">>, <<"3">>)
             /\ dest = Some(<<"A", "=", "1", "\n", "B", "=", "2", "\n">>))
            => dest' = Some(<<"A", "=", "1", "\n", "B", "=", "3", "\n">>)
       /\ (DeleteKeyDone(<<"A">>)
             /\ dest = Some(<<"A", "=", "1", "\n", "B", "=", "3", "\n">>))
            => dest' = Some(<<"B", "=", "3", "\n">>)]_vars

\* The scenario has run to its end: B was set to 3, A was deleted, the file
\* is B=3.
C25_Witness ==
    /\ dest = Some(<<"B", "=", "3", "\n">>)
    /\ lastRet = Ret("deleteKey", <<"A">>, "ok", <<>>, FALSE, {}, "")


\* The lines of a text file: what the newlines separate, the newline at the
\* end of the file closing its last line; an empty file has no line.
TextLines(content) ==
    LET ls == Split(content, "\n")
    IN  IF content = <<>> THEN <<>>
        ELSE IF content[Len(content)] = "\n" THEN SubSeq(ls, 1, Len(ls) - 1)
        ELSE ls

\* C26: setKey and deleteKey keep every other line as it is and where it is:
\* after the set of a key the file holds, the lines are the former ones with
\* that key's line replaced; after a delete, the former ones without that
\* key's line; after the set of a key the file does not hold, the former
\* ones followed by the one line K=v, no blank line added or dropped.
C26_OtherLinesVerbatim ==
    [][/\ \A k \in MutateKeys, v \in MutateValues :
            (SetKeyDone(k, v) /\ IsSome(dest))
                => TextLines(Get(dest')) =
                     IF HasKey(Get(dest), k)
                     THEN [j \in 1..Len(TextLines(Get(dest))) |->
                             IF LineKey(TextLines(Get(dest))[j]) = Some(k)
                             THEN k \o <<"=">> \o v
                             ELSE TextLines(Get(dest))[j]]
                     ELSE Append(TextLines(Get(dest)), k \o <<"=">> \o v)
       /\ \A k \in MutateKeys :
            (DeleteKeyDone(k) /\ IsSome(dest))
                => TextLines(Get(dest')) =
                     SelectSeq(TextLines(Get(dest)), LAMBDA l : LineKey(l) # Some(k))]_vars


RecordCallFailed == writers[FailingWriter].pc \in {"failed", "timeout"}
VaultMutateCall ==
    \/ \E v \in {ValA, ValB} : VaultSetCall(VaultKeyV, v) \/ VaultSetFailing(VaultKeyV, v)
    \/ VaultDeleteCall(VaultKeyV)

\* C28: a record setKey or deleteKey that ends in failure (the lock was never
\* got, or the write threw) has the destination file exactly as it was when
\* the call began, and a vault set or delete that fails (no identity, a file
\* that cannot be opened, a save that throws) leaves the vault file exactly
\* as it was before the call.
C28_FailedCallLeavesFile ==
    [][/\ RecordCallFailed' => dest' = ContentBefore
       /\ (VaultMutateCall /\ lastRet'.kind # "ok") => vaultFile' = vaultFile]_vars

\* The record call has failed with the file as it was, and the last vault
\* call was a set whose save threw over a vault file that exists.
C28_Witness ==
    /\ RecordCallFailed
    /\ dest = ContentBefore
    /\ lastRet.op = "vaultSet"
    /\ lastRet.kind = "VaultError"
    /\ IsSome(vaultFile)

\* A get that waits for the promise handed out by loadIdentity().
AwaitsPromise(c) == calls[c].pc = "awaitIdentity" /\ ~IsSome(calls[c].ident)

\* C29: on one resolver the identity file is read at most once, however many
\* gets of encrypted entries are in flight before the identity is there; each
\* get that waits for the load resumes with the identity the load gave, or
\* fails with IdentityNotFound when the load failed; and the outcome of the
\* load, once there, stays what it is, so all of them receive the same.
C29_IdentityLoadCoalesced ==
    [][/\ identityReads' <= 1
       /\ \A c \in Calls :
            (AwaitsPromise(c) /\ calls'[c] # calls[c])
                => IF identityPromise = "rejected"
                   THEN /\ calls'[c].pc = "idle"
                        /\ lastRet' = GetRet(calls[c].key, "IdentityNotFound", <<>>, "enc")
                   ELSE /\ IsSome(identity)
                        /\ calls'[c].pc = "awaitDecrypt"
                        /\ calls'[c].ident = identity
       /\ IsSome(identity) => identity' = identity
       /\ identityPromise = "rejected" => identityPromise' = "rejected"]_vars

\* Every call of the resolver is a get waiting for one load that is under way.
C29_Witness ==
    /\ \A c \in Calls : AwaitsPromise(c)
    /\ identityPromise = "pending"
    /\ identityReads = 1

\* The blob of the entry a get is about to open, and whether it is sealed to
\* the recipient of the identity the get holds.
BlobOf(c) == SliceFrom(calls[c].value, Len(ENCRYPTED_PREFIX))[1]
IdentityMatches(c) ==
    SealedBlobs[BlobOf(c)].rcpt = getPublicKey(Get(calls[c].ident))
Decrypts(c) == calls[c].pc = "awaitDecrypt" /\ calls'[c] # calls[c]

\* C30: a get of K=enc:age:<blob> returns the plaintext sealed in the blob,
\* and caches it, when the identity matches the blob's recipient; under any
\* other identity it fails with DecryptionError and leaves the cache as it
\* was, making no entry for K.
C30_DecryptsOnlyUnderRecipient ==
    [][\A c \in Calls : Decrypts(c) =>
         IF IdentityMatches(c)
         THEN /\ lastRet' = GetRet(calls[c].key, "ok", SealedBlobs[BlobOf(c)].text, "enc")
              /\ cache'[calls[c].key] = SealedBlobs[BlobOf(c)].text
         ELSE /\ lastRet' = GetRet(calls[c].key, "DecryptionError", <<>>, "enc")
              /\ cache' = cache]_vars

\* A get of a blob sealed to the other recipient has failed with
\* DecryptionError and the cache holds nothing for its key.
C30_Witness ==
    /\ lastRet = GetRet(KeyK, "DecryptionError", <<>>, "enc")
    /\ IsSome(identity)
    /\ KeyK \notin DOMAIN cache

\* The public keys of the record at the resolved path, when it parses.
RecordKeys ==
    IF IsSome(file) /\ parseEnvFile(file).ok
    THEN {k \in KeysOf(parseEnvFile(file)) : ~IsPrivate(k)}
    ELSE {}
RecordBroken == IsSome(file) /\ ~parseEnvFile(file).ok
EnvKeys == {k \in DOMAIN procEnv : IsSome(procEnv[k])}
RootChanged == lastPath # "" /\ envPath # lastPath

\* C31: a get, has or keys that finds the resolved record path changed since
\* the resolver's last call answers from the record at the new path alone:
\* get returns that record's value or fails, never a cached value, and
\* leaves no cache entry of the old path; has is true only for a key the
\* environment or the new record has; keys lists the environment's names and
\* the new record's public keys.
C31_RootChangeClearsCache ==
    [][RootChanged =>
        /\ \A c \in Calls, k \in GetKeys :
             (GetStart(c, k) /\ ~IsSome(procEnv[k]))
                => /\ lastRet' = IF RecordBroken THEN GetRet(k, "ParseError", <<>>, "")
                                 ELSE IF IsSome(RecordValue(k))
                                 THEN GetRet(k, "ok", Get(RecordValue(k)), "plain")
                                 ELSE GetRet(k, "SecretNotFound", <<>>, "")
                   /\ DOMAIN cache' \subseteq {k}
                   /\ lastPath' = envPath
        /\ \A k \in GetKeys :
             Has(k) => /\ lastRet' = IF RecordBroken
                                     THEN Ret("has", k, "ParseError", <<>>, FALSE, {}, "")
                                     ELSE Ret("has", k, "ok", <<>>,
                                              k \in EnvKeys \cup RecordKeys, {}, "")
                       /\ cache' = EmptyCache
        /\ Keys => /\ lastRet' = IF RecordBroken
                                 THEN Ret("keys", <<>>, "ParseError", <<>>, FALSE, {}, "")
                                 ELSE Ret("keys", <<>>, "ok", <<>>, FALSE,
                                          EnvKeys \cup RecordKeys, "")
                   /\ cache' = EmptyCache]_vars

\* has(K) has answered false in a directory whose record lacks K, right after
\* the directory changed, while the record of the directory left has K.
C31_Witness ==
    /\ lastRet = Ret("has", KeyK, "ok", <<>>, FALSE, {}, "")
    /\ lastPath = envPath
    /\ cwd = "/other"
    /\ IsSome(elsewhere.file)
    /\ parseEnvFile(elsewhere.file).ok
    /\ KeyK \in KeysOf(parseEnvFile(elsewhere.file))
    /\ file = Some(TextXB)

\* No key is given by two entry lines of the file, and parseEnvFile does not
\* fail on it with the duplicate-key ParseError.
KeysUniqueIn(f) ==
    LET ls  == Split(ReadOrEmpty(f), "\n")
        out == parseEnvFile(f)
    IN  /\ \A i, j \in 1..Len(ls) :
              (i < j /\ EntryKey(ls[i]) # <<>>) => EntryKey(ls[i]) # EntryKey(ls[j])
        /\ ~(IsSome(out.error) /\ Get(out.error).err = "ParseError:duplicate key")

\* C32 as stated: from a record with unique keys, whatever setKey and
\* deleteKey calls one or several processes make, no key is ever given by two
\* entry lines.
C32_KeysAlwaysUnique == KeysUniqueIn(dest)

\* C32: a setKey of a key the naming policy allows, and every deleteKey,
\* made by any of several processes on a record whose keys are unique, leaves
\* a record whose keys are unique.
C32_ValidSetKeepsKeysUnique ==
    [][\A p \in Writers :
          (/\ Rename(p)
           /\ KeysUniqueIn(dest)
           /\ (writers[p].op = "deleteKey" \/ ValidKey(writers[p].key)))
          => KeysUniqueIn(dest')]_vars

\* Both processes have set a key and returned, one after the other, and the
\* record holds K, X and J once each.
C32_Witness ==
    /\ \A p \in Writers : writers[p].pc = "done" /\ writers[p].op = "setKey"
                            /\ ValidKey(writers[p].key)
    /\ writers["w1"].key # writers["w2"].key
    /\ KeysUniqueIn(dest)
    /\ \A k \in {KeyK, <<"J">>, <<"X">>} : IsSome(FileValue(dest, k))

\* get(key) comes to call loadIdentity(): the environment lacks the key, the
\* record parses, the cache as reloadEnv() leaves it lacks the key, and the
\* key's line is an encrypted one.
ReachesLoadIdentity(key) ==
    /\ ~IsSome(procEnv[key])
    /\ ~IsSome(reloadEnv.threw)
    /\ key \notin DOMAIN reloadEnv.cache
    /\ IsSome(reloadEnv.parsedEnv)
    /\ IsSome(VisibleLine(Get(reloadEnv.parsedEnv), key))
    /\ Get(VisibleLine(Get(reloadEnv.parsedEnv), key)).encrypted
OverrideInvalid ==
    IsSome(encodedIdentity) /\ ~IsSome(DecodeIdentity(Get(encodedIdentity)))

\* C33 as stated: whenever the override is set and fails validation, the
\* identity load of a get fails with IdentityNotFound, the default file is
\* not read and no identity is memoized by it.
C33_InvalidOverrideAlwaysFails ==
    [][\A c \in Calls :
          (GetStart(c, KeyK) /\ ReachesLoadIdentity(KeyK) /\ OverrideInvalid)
          => /\ lastRet' = GetRet(KeyK, "IdentityNotFound", <<>>, "enc")
             /\ identityReads' = identityReads
             /\ identity' = identity]_vars

\* C33: when the override is set to a non-empty value that fails validation,
\* no identity is memoized yet and no load is under way, the identity load of
\* a get fails with IdentityNotFound, the default file is not read even
\* when it exists, and no identity is memoized.
C33_InvalidOverrideFailsFreshLoad ==
    [][\A c \in Calls :
          (/\ GetStart(c, KeyK) /\ ReachesLoadIdentity(KeyK) /\ OverrideInvalid
           /\ Get(encodedIdentity) # <<>>
           /\ ~IsSome(identity) /\ identityPromise = "none")
          => /\ lastRet' = GetRet(KeyK, "IdentityNotFound", <<>>, "enc")
             /\ identityReads' = identityReads
             /\ identity' = None
             /\ identityPromise' = "none"
             /\ calls'[c] = IdleCall]_vars

\* A get has failed with IdentityNotFound under an override that decodes to
\* a text without the prefix, with the default identity file in place, and
\* neither an identity nor a read of the file has come of it.
C33_Witness ==
    /\ lastRet = GetRet(KeyK, "IdentityNotFound", <<>>, "enc")
    /\ encodedIdentity = Some(OverrideNoKey)
    /\ identityExists
    /\ ~IsSome(identity)
    /\ identityReads = 0


(***************************************************************************)
(* The vault shared with other processes                                   *)
(***************************************************************************)
\* C34: a vaultDelete(X) that returns without error leaves no X in the vault
\* file, also when X was added by another process after this process
\* memoized its snapshot.
C34_DeleteRemovesFromFile ==
    [][\A k \in VaultKeys :
        (VaultDeleteCall(k) /\ lastRet'.kind = "ok") => ~MapHas(VaultFileMap', k)]_vars

\* C35: within one process the memoized snapshot is never left stale by a
\* vaultSet: in every state the snapshot, when there is one, holds for every
\* key the value the vault file holds, which is the value of the last
\* completed vaultSet, so that a vaultGet starting then returns that value,
\* whatever loadVault calls were in flight while the vaultSet ran.
C35_SnapshotNeverStale ==
    IsSome(vaultCache) =>
        \A k \in VaultKeys : MapGet(Get(vaultCache), k) = MapGet(VaultFileMap, k)

\* C36: a vaultSet(X, v) that returns without error leaves a vault file that
\* decrypts to exactly the map the file held when the call took the lock,
\* with X set to v, and a vaultDelete(X) that returns without error leaves
\* that map without X.
C36_WriteChangesOneKey ==
    [][/\ \A k \in VaultKeys, v \in VaultValues :
            (VaultSetCall(k, v) /\ lastRet'.kind = "ok")
                => VaultFileMap' = MapSet(VaultFileMap, k, v)
       /\ \A k \in VaultKeys :
            (VaultDeleteCall(k) /\ lastRet'.kind = "ok")
                => VaultFileMap' = MapDelete(VaultFileMap, k)]_vars

(***************************************************************************)
(* The temporary sibling                                                   *)
(***************************************************************************)
\* A writer has named its temporary sibling and not yet renamed or removed it.
UsesTmp(p) == writers[p].pc \in {"tmpPartial", "tmpWritten"}

\* C37: two writeAtomic calls to one destination that overlap in time never
\* use the same temporary path.
C37_TmpPathsDistinct ==
    \A p, q \in Writers :
        (p # q /\ UsesTmp(p) /\ UsesTmp(q)) => writers[p].tmpPath # writers[q].tmpPath

(***************************************************************************)
(* The snapshot after a save that failed                                   *)
(***************************************************************************)
\* The last call of the process was a vaultSet or vaultDelete of the key that
\* ended in an error.
MutationFailed(k) ==
    /\ lastRet.op \in {"vaultSet", "vaultDelete"}
    /\ lastRet.key = k
    /\ lastRet.kind # "ok"

\* C38: a vaultGet(X) that follows a failed vaultSet(X, v) or vaultDelete(X)
\* in the same process returns the value X has in the vault file, or
\* undefined when the file has no X, and never the change that was not saved.
C38_FailedChangeNotServed ==
    [][\A k \in VaultKeys :
        (MutationFailed(k) /\ VaultGetCall(k))
            => /\ lastRet'.kind = "ok" => DiskValue(k) = Some(lastRet'.value)
               /\ lastRet'.kind = "undefined" => DiskValue(k) = None]_vars

(***************************************************************************)
(* get, has and keys asked in one and the same state                       *)
(***************************************************************************)
\* has(key) called now returns true.
HasGives(key) ==
    /\ ~IsSome(reloadEnv.threw)
    /\ \/ IsSome(procEnv[key])
       \/ /\ IsSome(reloadEnv.parsedEnv)
          /\ ~IsPrivate(key)
          /\ key \in KeysOf(Get(reloadEnv.parsedEnv))

\* keys() called now returns a list with the key in it.
KeysLists(key) ==
    /\ ~IsSome(reloadEnv.threw)
    /\ \/ IsSome(procEnv[key])
       \/ /\ IsSome(reloadEnv.parsedEnv)
          /\ key \in {k \in KeysOf(Get(reloadEnv.parsedEnv)) : ~IsPrivate(k)}

\* get(key) called now throws SecretNotFound.
GetNotFound(key) ==
    /\ ~IsSome(EnvLookup(key))
    /\ ~IsSome(reloadEnv.threw)
    /\ ~IsSome(CacheLookup(reloadEnv.cache, key))
    /\ \/ ~IsSome(reloadEnv.parsedEnv)
       \/ ~IsSome(VisibleLine(Get(reloadEnv.parsedEnv), key))

\* C39: in every state in which the record file is absent or parses, has(K)
\* is true exactly when keys() lists K and exactly when get(K) does not fail
\* with SecretNotFound; and no has or keys call loads the identity, reads the
\* identity file or leaves a call waiting for a decryption.
C39_VisibilityAgrees ==
    [][/\ ~IsSome(reloadEnv.threw) =>
            \A k \in GetKeys : /\ HasGives(k) <=> KeysLists(k)
                               /\ HasGives(k) <=> ~GetNotFound(k)
       /\ ((\E k \in GetKeys : Has(k)) \/ Keys) =>
            UNCHANGED <<identity, identityPromise, identityReads, calls>>]_vars

(***************************************************************************)
(* A record file that stops parsing                                        *)
(***************************************************************************)
\* reloadEnv() would parse the file again: the path is new, no record is
\* held, or the file's (mtime, size) is not the recorded pair.
FingerprintDiffers ==
    \/ envPath # lastPath
    \/ ~IsSome(parsedEnv)
    \/ IsSome(file) /\ (mtime # cacheTimestamp \/ Len(Get(file)) # cacheSize)

\* The step is a get of a key the environment does not set, a has or a keys,
\* and it throws ParseError.
AnswersParseError ==
    /\ \A c \in Calls :
          (GetStart(c, KeyK) /\ ~IsSome(procEnv[KeyK]))
              => /\ calls'[c].pc = "idle"
                 /\ lastRet' = GetRet(KeyK, "ParseError", <<>>, "")
    /\ Has(KeyK) => lastRet'.kind = "ParseError"
    /\ Keys => lastRet'.kind = "ParseError"

\* C40 as stated: while the record file on disk does not parse, every get of
\* a key not set in the environment, every has and every keys fails with
\* ParseError.
C40_MalformedNeverMasked ==
    [][RecordBroken => AnswersParseError]_vars

\* C40: while the record file on disk does not parse and its (mtime, size) is
\* not the pair the resolver recorded with the record it holds (or it holds
\* none), every get of a key not set in the environment, every has and every
\* keys fails with ParseError, whatever the cache and the record parsed
\* before hold; the failing call records nothing of the file, so the same
\* goes for each later call.
C40_MalformedSeenOnNewFingerprint ==
    [][(RecordBroken /\ FingerprintDiffers)
          => /\ AnswersParseError
             /\ ((\E c \in Calls : GetStart(c, KeyK)) \/ Has(KeyK) \/ Keys)
                   => FingerprintDiffers']_vars

\* A get has failed with ParseError on a file that does not parse while the
\* resolver holds a record parsed before and a cache entry for the key.
C40_Witness ==
    /\ RecordBroken
    /\ FingerprintDiffers
    /\ IsSome(parsedEnv)
    /\ KeyK \in DOMAIN cache
    /\ lastRet = GetRet(KeyK, "ParseError", <<>>, "")

====
